---- MODULE Spec2Model ----
(***************************************************************************)
(* A model of the retrieval subsystem of Flash-Chatbot:                    *)
(*   - DocumentProcessor (src/src/rag/document_processor.py): constructor, *)
(*     process() and the chunking loop of _chunk_text;                     *)
(*   - FAISSRetriever and SimpleRetriever (src/src/rag/retriever.py),      *)
(*     driven in lockstep by the same add_documents / retrieve / clear     *)
(*     calls over the same embedder;                                       *)
(*   - Embedder (src/src/rag/embedder.py): the class level model cache;    *)
(*   - ChatService.stream_message_with_rag and stream_message              *)
(*     (src/src/services/chat_service.py);                                 *)
(*   - ChatStateManager and SessionManager (src/src/services): the chat    *)
(*     sessions and the retriever kept in st.session_state.                *)
(* Python offsets are 0-based; sequences here are 1-based, so text[i] of   *)
(* the source is text[i + 1] below.                                        *)
(***************************************************************************)
EXTENDS Integers, Sequences, FiniteSets, TLC

VARIABLES
    \* ---- DocumentProcessor ----
    pc,             \* position of the caller inside DocumentProcessor
    chunk_size,     \* self.chunk_size
    chunk_overlap,  \* self.chunk_overlap
    text,           \* the text handed to _chunk_text
    start,          \* local `start` of _chunk_text
    end,            \* local `end` of _chunk_text (Unbound before the first assignment)
    chunks,         \* local `chunks` of _chunk_text
    spans,          \* the windows text[start:end] the while body has cut so far
    iterations,     \* number of completed passes through the while body
    error,          \* the exception that left DocumentProcessor, "" when none
    process_call,   \* the latest process(file_bytes, filename) call: its file name
                    \* and what its extraction step did
    tmp_files,      \* number of temporary files _extract_pdf left on disk
    \* ---- Embedder / retrievers ----
    dimension,          \* Embedder._dimension of the loaded model
    faiss_index,        \* FAISSRetriever.index
    faiss_documents,    \* FAISSRetriever.documents
    simple_ntotal,      \* SimpleRetriever._mock_index.ntotal (exposed as index.ntotal)
    simple_embeddings,  \* SimpleRetriever._embeddings
    simple_documents,   \* SimpleRetriever.documents
    last,               \* the retriever call whose outcome its caller holds: the
                        \* arguments and what each variant did (NoCall between calls)
    \* ---- Embedder class cache ----
    model,              \* Embedder._model
    model_name,         \* Embedder._model_name
    embedder_instance,  \* module global _embedder_instance is set
    embedder_call,      \* the latest call on the Embedder and how it ended
    thread_pc,          \* for each thread, its position inside Embedder.get_model
    loads_done,         \* number of loaded models that were assigned to Embedder._model
    \* ---- ChatService ----
    messages,           \* state_manager.messages of the current chat session
    turn,               \* the latest call of a ChatService turn and what it did
    turns_done,         \* turns completed since the conversation was empty
    \* ---- ChatStateManager / SessionManager ----
    sessions,           \* SessionManager.sessions, as the list of session ids
    session_names,      \* the name of each session of SessionManager.sessions
    uuids,              \* number of ids uuid.uuid4() has given to sessions
    current_session_id, \* SessionManager.current_session_id
    session_counter,    \* SessionManager._session_counter
    rag_retriever,      \* st.session_state holds the key "rag_retriever"
    doc_sessions,       \* for each stored document, the chat session that was
                        \* current when it was added
    session_raised      \* the exception of the latest session operation, "" when none

file_vars == <<process_call, tmp_files>>
chunker_vars == <<pc, chunk_size, chunk_overlap, text, start, end, chunks, spans,
                  iterations, error, file_vars>>
retriever_vars == <<dimension, faiss_index, faiss_documents, simple_ntotal,
                    simple_embeddings, simple_documents, last>>
race_vars == <<thread_pc, loads_done>>
embedder_vars == <<model, model_name, embedder_instance, embedder_call, race_vars>>
chat_vars == <<messages, turn, turns_done>>
session_vars == <<sessions, session_names, uuids, current_session_id, session_counter,
                  rag_retriever,
                  doc_sessions, session_raised>>
service_vars == <<embedder_vars, chat_vars, session_vars>>
vars == <<chunker_vars, retriever_vars, service_vars>>

----------------------------------------------------------------------------
(* Bounds of the model *)

MaxTextLen == 4
MaxChunkSize == 3
MaxIter == 6
NumTexts == 2
MaxDocs == 2
MaxBatch == 2
MaxTurns == 1
MaxSessions == 3
MaxPages == 2
MaxHistory == 4

----------------------------------------------------------------------------
(* Generic helpers *)

Min(a, b) == IF a < b THEN a ELSE b

SeqsUpTo(S, n) == UNION {[1..m -> S] : m \in 0..n}

\* Python's seq[lo:hi] for 0 <= lo, hi <= len(seq)
Slice(s, lo, hi) == IF hi <= lo THEN <<>> ELSE SubSeq(s, lo + 1, hi)

Reverse(s) == [i \in 1..Len(s) |-> s[Len(s) + 1 - i]]

----------------------------------------------------------------------------
(* DocumentProcessor *)

Chars == {" ", "a", "."}
Whitespace == {" ", "\n", "\t", "\r"}
BoundaryChars == {" ", "\n", ".", "!", "?"}

\* The name `end` before the while body has assigned it.
Unbound == -1

\* str.rfind(" ", lo, hi): the highest 0-based offset in [lo, hi) holding a
\* space, -1 when there is none.
RFindSpace(s, lo, hi) ==
    LET hits == {i \in lo..(hi - 1) : s[i + 1] = " "}
    IN IF hits = {} THEN -1 ELSE CHOOSE i \in hits : \A j \in hits : j <= i

\* A faulty variant of Strip: only the leading whitespace is dropped
\* (str.lstrip()).
StripLeading(s) ==
    LET keep == {i \in 1..Len(s) : s[i] \notin Whitespace}
    IN IF keep = {} THEN <<>>
       ELSE LET lo == CHOOSE i \in keep : \A j \in keep : i <= j
            IN SubSeq(s, lo, Len(s))

\* str.strip(): drop leading and trailing whitespace.
Strip(s) ==
    LET keep == {i \in 1..Len(s) : s[i] \notin Whitespace}
    IN IF keep = {} THEN <<>>
       ELSE LET lo == CHOOSE i \in keep : \A j \in keep : i <= j
                hi == CHOOSE i \in keep : \A j \in keep : j <= i
            IN SubSeq(s, lo, hi)

\* A faulty variant of WindowEnd: the search for the last space is missing,
\* every window is cut at start + chunk_size.
WindowEndHardCut(s, st, size) == Min(st + size, Len(s))

\* The value of `end` computed by one pass through the while body
\* (document_processor.py lines 126-133).
WindowEnd(s, st, size) ==
    LET e == Min(st + size, Len(s))
    IN IF e < Len(s) /\ s[e + 1] \notin BoundaryChars
       THEN LET last_space == RFindSpace(s, st, e)
            IN IF last_space # -1 THEN last_space ELSE e
       ELSE e

\* File names as sequences of pieces: "." and "/" stand for themselves, every
\* other piece is a run of characters holding neither.
Filenames ==
    { <<"notes", ".", "txt">>, <<"notes", ".", "Md">>, <<"notes", ".", "text">>,
      <<"report", ".", "PDF">>, <<"notes", ".", "docx">>, <<"notes">>,
      <<".", "pdf">>, <<"pdf", "/", "notes">>, <<"report", ".", "pdf", ".", "gz">> }

\* The final path component of a file name (PurePath.name).
Name(filename) ==
    LET slashes == {i \in 1..Len(filename) : filename[i] = "/"}
    IN IF slashes = {} THEN filename
       ELSE LET i == CHOOSE i \in slashes : \A j \in slashes : j <= i
            IN SubSeq(filename, i + 1, Len(filename))

\* Path(filename).suffix: the final component from its last dot on, unless
\* that dot is its first or its last character.
Suffix(filename) ==
    LET name == Name(filename)
        dots == {i \in 1..Len(name) : name[i] = "."}
    IN IF dots = {} THEN <<>>
       ELSE LET i == CHOOSE i \in dots : \A j \in dots : j <= i
            IN IF 1 < i /\ i < Len(name) THEN SubSeq(name, i, Len(name)) ELSE <<>>

\* str.lower() on the pieces that occur in Filenames.
LowerPiece(p) == CASE p = "PDF" -> "pdf" [] p = "Md" -> "md" [] OTHER -> p

Lower(string) == [i \in 1..Len(string) |-> LowerPiece(string[i])]

\* A faulty variant of ExtractorFor: a file of any other extension is read as
\* text.
ExtractorForAnyAsText(ext) ==
    IF ext = <<".", "pdf">> THEN "pdf" ELSE "text"

\* The branch process() takes for the lower-cased suffix ext (lines 52-57).
ExtractorFor(ext) ==
    IF ext = <<".", "pdf">> THEN "pdf"
    ELSE IF ext \in {<<".", "txt">>, <<".", "md">>, <<".", "text">>} THEN "text"
    ELSE "unsupported"

\* The bytes of a file: the codes of the characters in Chars.
Bytes == {32, 46, 97}

ByteChar(b) == CASE b = 32 -> " " [] b = 46 -> "." [] b = 97 -> "a"

\* _extract_text: chardet names an encoding under which these bytes decode to
\* their characters; without bytes the encoding defaults to utf-8.
ExtractText(file_bytes) == [i \in 1..Len(file_bytes) |-> ByteChar(file_bytes[i])]

\* "\n".join(strings) for strings given as sequences of characters.
JoinLines(strings) ==
    LET RECURSIVE From(_)
        From(i) == IF i > Len(strings) THEN <<>>
                   ELSE IF i = Len(strings) THEN strings[i]
                   ELSE strings[i] \o <<"\n">> \o From(i + 1)
    IN From(1)

\* page.extract_text() or "": what one page yields.
PageTexts == SeqsUpTo(Chars, 1)

\* The statement of _extract_pdf an exception is raised in, "none" when all
\* of them return: the import of pypdf, the creation of the temporary file,
\* tmp.write (or the flush when the `with` block closes the file),
\* pypdf.PdfReader(tmp_path), page.extract_text().
FailPoints == {"none", "import", "create", "write", "open", "extract"}

\* The extension is not .pdf: _extract_pdf is not called.
NoPdfRun == [pages |-> <<>>, fail_at |-> "unused"]

\* What the parser and the file system do during one _extract_pdf call.
PdfRuns ==
    {[pages |-> p, fail_at |-> "none"] : p \in SeqsUpTo(PageTexts, MaxPages)}
        \cup {[pages |-> <<>>, fail_at |-> f] : f \in FailPoints \ {"none"}}

\* _extract_pdf(file_bytes): the text, the exception that leaves the call,
\* whether the bytes were written to the temporary file, and whether a
\* temporary file is left on disk. NamedTemporaryFile(delete=False) creates
\* the file; only the `finally` of the inner try, entered after the `with`
\* block, unlinks it; `except Exception` wraps every failure.
ExtractPdf(file_bytes, pages, fail_at) ==
    [text |-> IF fail_at = "none" THEN JoinLines(pages) ELSE <<>>,
     raised |-> IF fail_at = "none" THEN "" ELSE "DocumentProcessingError",
     message |-> IF fail_at = "none" THEN <<>> ELSE <<"PDF extraction failed: ", fail_at>>,
     written |-> fail_at \notin {"import", "create", "write"},
     tmp_left |-> fail_at = "write"]

NoProcessCall == [op |-> "none", filename |-> <<>>, extractor |-> "",
                  fail_at |-> "none", inspected |-> FALSE, text |-> <<>>,
                  message |-> <<>>]

ChunkerIdle ==
    /\ pc = "new"
    /\ chunk_size = 0
    /\ chunk_overlap = 0
    /\ text = <<>>
    /\ start = 0
    /\ end = Unbound
    /\ chunks = <<>>
    /\ spans = <<>>
    /\ iterations = 0
    /\ error = ""
    /\ process_call = NoProcessCall
    /\ tmp_files = 0

\* A faulty variant of DocumentProcessorInit: the test is `>` in place of `>=`,
\* so an overlap equal to the chunk size is accepted.
DocumentProcessorInitAcceptsEqual(size, overlap) ==
    /\ pc = "new"
    /\ IF overlap > size
       THEN /\ pc' = "raised"
            /\ error' = "ValueError"
            /\ UNCHANGED <<chunk_size, chunk_overlap>>
       ELSE /\ pc' = "ready"
            /\ chunk_size' = size
            /\ chunk_overlap' = overlap
            /\ UNCHANGED error
    /\ UNCHANGED <<text, start, end, chunks, spans, iterations>>
    /\ UNCHANGED file_vars
    /\ UNCHANGED retriever_vars
    /\ UNCHANGED service_vars

\* DocumentProcessor(chunk_size, chunk_overlap)
DocumentProcessorInit(size, overlap) ==
    /\ pc = "new"
    /\ IF overlap >= size
       THEN /\ pc' = "raised"
            /\ error' = "ValueError"
            /\ UNCHANGED <<chunk_size, chunk_overlap>>
       ELSE /\ pc' = "ready"
            /\ chunk_size' = size
            /\ chunk_overlap' = overlap
            /\ UNCHANGED error
    /\ UNCHANGED <<text, start, end, chunks, spans, iterations>>
    /\ UNCHANGED file_vars
    /\ UNCHANGED retriever_vars
    /\ UNCHANGED service_vars

\* The first three statements of _chunk_text (lines 121-123).
EnterChunkText(t) ==
    /\ text' = t
    /\ chunks' = <<>>
    /\ spans' = <<>>
    /\ start' = 0
    /\ end' = Unbound
    /\ iterations' = 0
    /\ pc' = "loop"

\* A faulty variant of ChunkExtracted: the test is `if not text`, without
\* strip(), so a text of whitespace reaches the chunker.
ChunkExtractedNoStrip(t) ==
    /\ pc = "ready"
    /\ IF t = <<>>
       THEN /\ pc' = "raised"
            /\ error' = "DocumentProcessingError"
            /\ UNCHANGED <<text, start, end, chunks, spans, iterations>>
       ELSE /\ EnterChunkText(t)
            /\ UNCHANGED error
    /\ UNCHANGED <<chunk_size, chunk_overlap>>
    /\ UNCHANGED retriever_vars
    /\ UNCHANGED service_vars

\* The end of process() (lines 59-62) once the extracted text is t: the
\* empty-text check, then the call of _chunk_text.
ChunkExtracted(t) ==
    /\ pc = "ready"
    /\ IF Strip(t) = <<>>
       THEN /\ pc' = "raised"
            /\ error' = "DocumentProcessingError"
            /\ UNCHANGED <<text, start, end, chunks, spans, iterations>>
       ELSE /\ EnterChunkText(t)
            /\ UNCHANGED error
    /\ UNCHANGED <<chunk_size, chunk_overlap>>
    /\ UNCHANGED retriever_vars
    /\ UNCHANGED service_vars

\* process() is left by the exception e before the empty-text check.
ExtractionRaises(e) ==
    /\ pc = "ready"
    /\ pc' = "raised"
    /\ error' = e
    /\ UNCHANGED <<chunk_size, chunk_overlap, text, start, end, chunks, spans, iterations>>
    /\ UNCHANGED retriever_vars
    /\ UNCHANGED service_vars

\* process(file_bytes, filename). pdf: what pypdf and the file system do
\* when the extension is .pdf (an element of PdfRuns).
Process(file_bytes, filename, pdf) ==
    LET ext == Lower(Suffix(filename))
        extractor == ExtractorFor(ext)
        call == [op |-> "process", filename |-> filename, extractor |-> extractor,
                 fail_at |-> "none", inspected |-> FALSE, text |-> <<>>,
                 message |-> <<>>]
    IN IF extractor = "pdf"
       THEN LET x == ExtractPdf(file_bytes, pdf.pages, pdf.fail_at)
            IN /\ pdf \in PdfRuns
               /\ process_call' = [call EXCEPT !.fail_at = pdf.fail_at,
                                               !.inspected = x.written,
                                               !.text = x.text, !.message = x.message]
               /\ tmp_files' = tmp_files + (IF x.tmp_left THEN 1 ELSE 0)
               /\ IF x.raised # ""
                  THEN ExtractionRaises(x.raised)
                  ELSE ChunkExtracted(x.text)
       ELSE IF extractor = "text"
       THEN LET t == ExtractText(file_bytes)
            IN /\ pdf = NoPdfRun
               /\ process_call' = [call EXCEPT !.inspected = TRUE, !.text = t]
               /\ UNCHANGED tmp_files
               /\ ChunkExtracted(t)
       ELSE /\ pdf = NoPdfRun
            /\ process_call' = [call EXCEPT !.message = <<"Unsupported file type: ">> \o ext]
            /\ UNCHANGED tmp_files
            /\ ExtractionRaises("DocumentProcessingError")

\* processor.process(file_bytes, uploaded_file.name) on a constructed
\* processor, for any uploaded file.
ProcessCall ==
    /\ pc = "ready"
    /\ \E file_bytes \in SeqsUpTo(Bytes, MaxTextLen), filename \in Filenames,
          pdf \in PdfRuns \cup {NoPdfRun} :
          Process(file_bytes, filename, pdf)

\* _chunk_text(text) called on its own, the empty text included.
ChunkTextCall(t) ==
    /\ pc = "ready"
    /\ EnterChunkText(t)
    /\ UNCHANGED <<chunk_size, chunk_overlap, error>>
    /\ UNCHANGED file_vars
    /\ UNCHANGED retriever_vars
    /\ UNCHANGED service_vars

\* One pass through the body of `while start < text_len` (lines 125-138).
\* The body assigns end and chunks and leaves start alone: the statements
\* that move start (lines 140-150) are indented outside the loop.
ChunkLoopBody ==
    /\ pc = "loop"
    /\ start < Len(text)
    /\ iterations < MaxIter
    /\ LET e == WindowEnd(text, start, chunk_size)
           chunk == Strip(Slice(text, start, e))
       IN /\ end' = e
          /\ chunks' = IF chunk # <<>> THEN Append(chunks, chunk) ELSE chunks
          /\ spans' = Append(spans, [lo |-> start, hi |-> e])
    /\ iterations' = iterations + 1
    /\ UNCHANGED <<pc, chunk_size, chunk_overlap, text, start, error>>
    /\ UNCHANGED file_vars
    /\ UNCHANGED retriever_vars
    /\ UNCHANGED service_vars

\* The loop test fails: control leaves the while statement.
ChunkLoopExit ==
    /\ pc = "loop"
    /\ ~(start < Len(text))
    /\ pc' = "after"
    /\ UNCHANGED <<chunk_size, chunk_overlap, text, start, end, chunks, spans,
                   iterations, error>>
    /\ UNCHANGED file_vars
    /\ UNCHANGED retriever_vars
    /\ UNCHANGED service_vars

\* The statements after the loop (lines 140-152): they read `end`, which is
\* unbound when the body never ran.
ChunkAfterLoop ==
    /\ pc = "after"
    /\ IF end = Unbound
       THEN /\ pc' = "raised"
            /\ error' = "UnboundLocalError"
            /\ UNCHANGED start
       ELSE /\ start' = IF end < Len(text)
                        THEN LET s1 == end - chunk_overlap
                                 s2 == IF s1 >= end THEN end ELSE s1
                             IN IF s2 >= end THEN Min(end + 1, Len(text)) ELSE s2
                        ELSE Len(text)
            /\ pc' = "returned"
            /\ UNCHANGED error
    /\ UNCHANGED <<chunk_size, chunk_overlap, text, end, chunks, spans, iterations>>
    /\ UNCHANGED file_vars
    /\ UNCHANGED retriever_vars
    /\ UNCHANGED service_vars

----------------------------------------------------------------------------
(* Embedder, as the retrievers see it *)

\* The dimensions of the two embedding models (1024 and 384 in the source),
\* scaled down.
Dims == {2, 3}

Texts == 1..NumTexts

Weight(j) == IF j = 0 THEN 2 ELSE IF j = 1 THEN 1 ELSE 0

\* model.encode(text, normalize_embeddings=True): a vector of the model's
\* dimension; every vector has the same norm (a rotation of one vector).
Encode(t, d) == [i \in 1..d |-> Weight(((i - 1) + d - ((t - 1) % d)) % d)]

\* Embedder.embed_documents: one row per text, in the order of the texts.
embed_documents(texts, d) == [i \in 1..Len(texts) |-> Encode(texts[i], d)]

\* Embedder.embed_query
embed_query(query, d) == Encode(query, d)

RECURSIVE DotUpTo(_, _, _)
DotUpTo(u, v, n) == IF n = 0 THEN 0 ELSE u[n] * v[n] + DotUpTo(u, v, n - 1)

\* Inner product of two vectors of the same length.
Dot(u, v) == DotUpTo(u, v, Len(u))

----------------------------------------------------------------------------
(* Embedder: the class level model cache and the calls that resolve it *)

PRIMARY_MODEL == "Qwen/Qwen3-Embedding-0.6B"
FALLBACK_MODEL == "all-MiniLM-L6-v2"

\* cls._dimension of the two models (1024 and 384 in the source), scaled
\* down to the elements of Dims.
PrimaryDimension == 3
FallbackDimension == 2

\* cls._model = None
NoModel == "None"

\* The length of the vectors model.encode produces.
EncodeDimension(m) == IF m = PRIMARY_MODEL THEN PrimaryDimension ELSE FallbackDimension

\* The class attributes after get_model loaded the model called name.
Loaded(name) ==
    [model |-> name, model_name |-> name, dimension |-> EncodeDimension(name)]

\* The class attributes before any load: _model None, _model_name "", _dimension 0.
Unresolved == [model |-> NoModel, model_name |-> "", dimension |-> 0]

\* One SentenceTransformer(name) call and whether it returned.
Attempt(name, ok) == [name |-> name, ok |-> ok]

\* A faulty variant of GetModel: the `if cls._model is None` test is missing, so
\* every call loads again.
GetModelAlwaysLoads(cache, primary_ok, fallback_ok) ==
    IF primary_ok
    THEN [cache |-> Loaded(PRIMARY_MODEL), raised |-> "",
          attempts |-> <<Attempt(PRIMARY_MODEL, TRUE)>>]
    ELSE IF fallback_ok
    THEN [cache |-> Loaded(FALLBACK_MODEL), raised |-> "",
          attempts |-> <<Attempt(PRIMARY_MODEL, FALSE), Attempt(FALLBACK_MODEL, TRUE)>>]
    ELSE [cache |-> cache, raised |-> "LoadError",
          attempts |-> <<Attempt(PRIMARY_MODEL, FALSE), Attempt(FALLBACK_MODEL, FALSE)>>]

\* A faulty variant of GetModel: when the fallback load fails too, the failure is
\* swallowed and the fallback is recorded as loaded.
GetModelSwallowsFailure(cache, primary_ok, fallback_ok) ==
    IF cache.model # NoModel
    THEN [cache |-> cache, raised |-> "", attempts |-> <<>>]
    ELSE IF primary_ok
    THEN [cache |-> Loaded(PRIMARY_MODEL), raised |-> "",
          attempts |-> <<Attempt(PRIMARY_MODEL, TRUE)>>]
    ELSE [cache |-> Loaded(FALLBACK_MODEL), raised |-> "",
          attempts |-> <<Attempt(PRIMARY_MODEL, FALSE),
                         Attempt(FALLBACK_MODEL, fallback_ok)>>]

\* Embedder.get_model: the class attributes after the call, the loads it
\* attempted in order, and the exception that left it ("" when it returned).
\* primary_ok / fallback_ok: whether SentenceTransformer(name) would return.
GetModel(cache, primary_ok, fallback_ok) ==
    IF cache.model # NoModel
    THEN [cache |-> cache, raised |-> "", attempts |-> <<>>]
    ELSE IF primary_ok
    THEN [cache |-> Loaded(PRIMARY_MODEL), raised |-> "",
          attempts |-> <<Attempt(PRIMARY_MODEL, TRUE)>>]
    ELSE IF fallback_ok
    THEN [cache |-> Loaded(FALLBACK_MODEL), raised |-> "",
          attempts |-> <<Attempt(PRIMARY_MODEL, FALSE), Attempt(FALLBACK_MODEL, TRUE)>>]
    ELSE \* the exception of the fallback load leaves get_model
         [cache |-> cache, raised |-> "LoadError",
          attempts |-> <<Attempt(PRIMARY_MODEL, FALSE), Attempt(FALLBACK_MODEL, FALSE)>>]

\* A faulty variant of DimensionProperty: _dimension is returned as it is, the
\* model is not resolved.
DimensionPropertyNoLoad(cache, primary_ok, fallback_ok) ==
    [cache |-> cache, raised |-> "", attempts |-> <<>>]

\* The `dimension` property: resolves the model when _dimension is 0.
DimensionProperty(cache, primary_ok, fallback_ok) ==
    IF cache.dimension = 0
    THEN GetModel(cache, primary_ok, fallback_ok)
    ELSE [cache |-> cache, raised |-> "", attempts |-> <<>>]

\* A faulty variant of ModelNameProperty: _model_name is returned as it is, the
\* model is not resolved.
ModelNamePropertyNoLoad(cache, primary_ok, fallback_ok) ==
    [cache |-> cache, raised |-> "", attempts |-> <<>>]

\* The `model_name` property: resolves the model when _model_name is "".
ModelNameProperty(cache, primary_ok, fallback_ok) ==
    IF cache.model_name = ""
    THEN GetModel(cache, primary_ok, fallback_ok)
    ELSE [cache |-> cache, raised |-> "", attempts |-> <<>>]

\* What a call on the Embedder gave back: dim / name for the properties; for
\* the embedding calls rows and dim (the shape of the array), encoded (whether
\* model.encode was called) and prompt_name as passed to model.encode.
NoValue == [dim |-> 0, name |-> "", rows |-> <<>>, encoded |-> FALSE, prompt_name |-> ""]

\* The value of model.encode(...) on the loaded model m: rows of
\* EncodeDimension(m) components each.
Encoded(m, rows, prompt_name) ==
    [NoValue EXCEPT !.dim = IF rows = <<>> THEN 0 ELSE EncodeDimension(m),
                    !.rows = rows, !.encoded = TRUE, !.prompt_name = prompt_name]

\* A faulty variant of EmbedDocuments: the `if not texts` branch is missing, so
\* an empty list reaches model.encode, which gives an array without columns.
EmbedDocumentsNoEmptyCase(cache, texts, primary_ok, fallback_ok) ==
    LET r == GetModel(cache, primary_ok, fallback_ok)
        d == EncodeDimension(r.cache.model)
    IN [r |-> r, value |-> Encoded(r.cache.model, embed_documents(texts, d), "")]

\* Embedder.embed_documents(texts): an empty list gives an array of shape
\* (0, self.dimension) and model.encode is not called; otherwise the model
\* encodes the texts without a prompt.
EmbedDocuments(cache, texts, primary_ok, fallback_ok) ==
    IF texts = <<>>
    THEN LET r == DimensionProperty(cache, primary_ok, fallback_ok)
         IN [r |-> r, value |-> [NoValue EXCEPT !.dim = r.cache.dimension]]
    ELSE LET r == GetModel(cache, primary_ok, fallback_ok)
             d == EncodeDimension(r.cache.model)
         IN [r |-> r, value |-> Encoded(r.cache.model, embed_documents(texts, d), "")]

\* A faulty variant of QueryPromptName: the query prompt is passed to every
\* model.
QueryPromptNameAlways(name) == "query"

\* The prompt_name embed_query passes to model.encode: "query" when
\* _model_name is the primary model, none otherwise.
QueryPromptName(name) == IF name = PRIMARY_MODEL THEN "query" ELSE ""

\* Embedder.embed_query(text)
EmbedQuery(cache, query, primary_ok, fallback_ok) ==
    LET r == GetModel(cache, primary_ok, fallback_ok)
        d == EncodeDimension(r.cache.model)
    IN [r |-> r,
        value |-> Encoded(r.cache.model, <<embed_query(query, d)>>,
                          QueryPromptName(r.cache.model_name))]

NoEmbedderCall == [op |-> "none", texts |-> <<>>, attempts |-> <<>>, raised |-> "",
                   value |-> NoValue]

EmbedderCache == [model |-> model, model_name |-> model_name, dimension |-> dimension]

\* The call on texts stores the class attributes of r and is recorded with
\* its value.
EmbedderCallEnds(op, texts, r, value) ==
    /\ model' = r.cache.model
    /\ model_name' = r.cache.model_name
    /\ dimension' = r.cache.dimension
    /\ embedder_call' = [op |-> op, texts |-> texts, attempts |-> r.attempts,
                         raised |-> r.raised,
                         value |-> IF r.raised = "" THEN value ELSE NoValue]
    /\ UNCHANGED <<embedder_instance, race_vars>>
    /\ UNCHANGED <<faiss_index, faiss_documents, simple_ntotal, simple_embeddings,
                   simple_documents, last>>
    /\ UNCHANGED <<chunker_vars, chat_vars, session_vars>>

\* Embedder(): the constructor is the default one, nothing is loaded.
EmbedderNew ==
    /\ embedder_call' = [NoEmbedderCall EXCEPT !.op = "Embedder"]
    /\ UNCHANGED <<model, model_name, dimension, embedder_instance, race_vars>>
    /\ UNCHANGED <<faiss_index, faiss_documents, simple_ntotal, simple_embeddings,
                   simple_documents, last>>
    /\ UNCHANGED <<chunker_vars, chat_vars, session_vars>>

\* get_embedder(): creates the singleton on the first call.
GetEmbedder ==
    /\ embedder_instance' = TRUE
    /\ embedder_call' = [NoEmbedderCall EXCEPT !.op = "get_embedder"]
    /\ UNCHANGED <<model, model_name, dimension, race_vars>>
    /\ UNCHANGED <<faiss_index, faiss_documents, simple_ntotal, simple_embeddings,
                   simple_documents, last>>
    /\ UNCHANGED <<chunker_vars, chat_vars, session_vars>>

\* Embedder.get_model()
GetModelCall(primary_ok, fallback_ok) ==
    /\ LET r == GetModel(EmbedderCache, primary_ok, fallback_ok)
       IN EmbedderCallEnds("get_model", <<>>, r, [NoValue EXCEPT !.name = r.cache.model])

\* embedder.dimension
DimensionCall(primary_ok, fallback_ok) ==
    /\ LET r == DimensionProperty(EmbedderCache, primary_ok, fallback_ok)
       IN EmbedderCallEnds("dimension", <<>>, r,
                           [NoValue EXCEPT !.dim = r.cache.dimension])

\* embedder.model_name
ModelNameCall(primary_ok, fallback_ok) ==
    /\ LET r == ModelNameProperty(EmbedderCache, primary_ok, fallback_ok)
       IN EmbedderCallEnds("model_name", <<>>, r,
                           [NoValue EXCEPT !.name = r.cache.model_name])

\* embedder.embed_documents(texts)
EmbedDocumentsCall(texts, primary_ok, fallback_ok) ==
    /\ LET c == EmbedDocuments(EmbedderCache, texts, primary_ok, fallback_ok)
       IN EmbedderCallEnds("embed_documents", texts, c.r, c.value)

\* embedder.embed_query(text)
EmbedQueryCall(query, primary_ok, fallback_ok) ==
    /\ LET c == EmbedQuery(EmbedderCache, query, primary_ok, fallback_ok)
       IN EmbedderCallEnds("embed_query", <<query>>, c.r, c.value)

\* The threads that serve two browser sessions of one process.
Threads == {"session_a", "session_b"}

\* No thread is inside Embedder.get_model.
ThreadsIdle ==
    /\ thread_pc = [t \in Threads |-> "idle"]
    /\ loads_done = 0

race_frame ==
    /\ UNCHANGED <<embedder_instance, embedder_call>>
    /\ UNCHANGED <<faiss_index, faiss_documents, simple_ntotal, simple_embeddings,
                   simple_documents, last>>
    /\ UNCHANGED <<chunker_vars, chat_vars, session_vars>>

\* Thread t is at position from and moves to position to.
Goes(t, from, to) ==
    /\ thread_pc[t] = from
    /\ thread_pc' = [thread_pc EXCEPT ![t] = to]

\* Thread t makes an embedding call, which enters get_model.
ThreadCallsGetModel(t) ==
    /\ \E from \in {"idle", "returned", "raised"} : Goes(t, from, "test")
    /\ UNCHANGED <<model, model_name, dimension, loads_done>>
    /\ race_frame

\* `if cls._model is None` (line 25).
ThreadTestsModel(t) ==
    /\ Goes(t, "test", IF model = NoModel THEN "load_primary" ELSE "return")
    /\ UNCHANGED <<model, model_name, dimension, loads_done>>
    /\ race_frame

\* `cls._model = SentenceTransformer(cls.PRIMARY_MODEL)` (line 30): the load
\* returns and the model is assigned, or the load raises.
ThreadLoadsPrimary(t, ok) ==
    /\ IF ok
       THEN /\ Goes(t, "load_primary", "primary_name")
            /\ model' = PRIMARY_MODEL
            /\ loads_done' = loads_done + 1
       ELSE /\ Goes(t, "load_primary", "load_fallback")
            /\ UNCHANGED <<model, loads_done>>
    /\ UNCHANGED <<model_name, dimension>>
    /\ race_frame

\* `cls._model_name = cls.PRIMARY_MODEL` (line 31)
ThreadSetsPrimaryName(t) ==
    /\ Goes(t, "primary_name", "primary_dimension")
    /\ model_name' = PRIMARY_MODEL
    /\ UNCHANGED <<model, dimension, loads_done>>
    /\ race_frame

\* `cls._dimension = 1024` (line 32)
ThreadSetsPrimaryDimension(t) ==
    /\ Goes(t, "primary_dimension", "return")
    /\ dimension' = PrimaryDimension
    /\ UNCHANGED <<model, model_name, loads_done>>
    /\ race_frame

\* `cls._model = SentenceTransformer(cls.FALLBACK_MODEL)` (line 35): the load
\* returns and the model is assigned, or the load raises out of get_model.
ThreadLoadsFallback(t, ok) ==
    /\ IF ok
       THEN /\ Goes(t, "load_fallback", "fallback_name")
            /\ model' = FALLBACK_MODEL
            /\ loads_done' = loads_done + 1
       ELSE /\ Goes(t, "load_fallback", "raised")
            /\ UNCHANGED <<model, loads_done>>
    /\ UNCHANGED <<model_name, dimension>>
    /\ race_frame

\* `cls._model_name = cls.FALLBACK_MODEL` (line 36)
ThreadSetsFallbackName(t) ==
    /\ Goes(t, "fallback_name", "fallback_dimension")
    /\ model_name' = FALLBACK_MODEL
    /\ UNCHANGED <<model, dimension, loads_done>>
    /\ race_frame

\* `cls._dimension = 384` (line 37)
ThreadSetsFallbackDimension(t) ==
    /\ Goes(t, "fallback_dimension", "return")
    /\ dimension' = FallbackDimension
    /\ UNCHANGED <<model, model_name, loads_done>>
    /\ race_frame

\* `return cls._model` (line 39)
ThreadReturns(t) ==
    /\ Goes(t, "return", "returned")
    /\ UNCHANGED <<model, model_name, dimension, loads_done>>
    /\ race_frame

\* The Embedder whose model of dimension d is loaded.
EmbedderLoaded(d) ==
    /\ model = (IF d = PrimaryDimension THEN PRIMARY_MODEL ELSE FALLBACK_MODEL)
    /\ model_name = model
    /\ embedder_instance = TRUE
    /\ embedder_call = NoEmbedderCall
    /\ ThreadsIdle

----------------------------------------------------------------------------
(* Library operations the retrievers call *)

Perms(n) == {p \in [1..n -> 1..n] : \A i, j \in 1..n : p[i] = p[j] => i = j}

\* np.argsort(a), default kind: an index order that sorts a ascending. The
\* default sort is not stable, so equal elements come in any order.
ArgSort(a) ==
    {p \in Perms(Len(a)) : \A i \in 1..(Len(a) - 1) : a[p[i]] <= a[p[i + 1]]}

\* Python's seq[-k:] for 0 <= k <= len(seq); seq[-0:] is the whole of seq.
LastK(s, k) == IF k = 0 THEN s ELSE SubSeq(s, Len(s) - k + 1, Len(s))

\* faiss.IndexFlatIP.search(q, k) for 0 < k <= ntotal: the rows of the k
\* largest inner products, largest first; the order among equal scores is
\* the library's.
IndexFlatIPSearch(xb, q, k) ==
    LET scores == [i \in 1..Len(xb) |-> Dot(xb[i], q)]
    IN {SubSeq(Reverse(p), 1, k) : p \in ArgSort(scores)}

----------------------------------------------------------------------------
(* Retrievers *)

\* metadata argument: None or a list of dicts; <<>> stands for both.
MetadataArgs == {<<>>, <<"source">>}

Document(t, m) == [text |-> t, metadata |-> m]

\* Lines 116-118 / 198-200: one Document per text, with the metadata entry
\* at the same position or an empty dict.
NewDocuments(texts, metadata) ==
    [i \in 1..Len(texts) |->
        Document(texts[i],
                 IF metadata # <<>> /\ i <= Len(metadata) THEN metadata[i] ELSE "{}")]

\* self.index = None
NoIndex == [created |-> FALSE, d |-> 0, xb |-> <<>>]

\* self._embeddings = None
NoEmbeddings == [set |-> FALSE, rows |-> <<>>]

\* index.ntotal of an existing faiss index
NTotal(index) == Len(index.xb)

\* FAISSRetriever._init_index
FAISSInitIndex(index, dim) ==
    IF ~index.created THEN [created |-> TRUE, d |-> dim, xb |-> <<>>] ELSE index

\* A faulty variant of FAISSAddDocuments: the `if not texts: return` guard is missing,
\* so an empty batch is embedded and the index is created.
FAISSAddDocumentsNoGuard(index, documents, texts, metadata, embed_ok, dim) ==
    IF ~embed_ok
    THEN [index |-> index, documents |-> documents,
          raised |-> "EmbedderError", embed_called |-> TRUE]
    ELSE LET embeddings == embed_documents(texts, dim)
             idx == FAISSInitIndex(index, dim)
         IN IF idx.d # dim
            THEN [index |-> idx, documents |-> documents,
                  raised |-> "AssertionError", embed_called |-> TRUE]
            ELSE [index |-> [idx EXCEPT !.xb = @ \o embeddings],
                  documents |-> documents \o NewDocuments(texts, metadata),
                  raised |-> "", embed_called |-> TRUE]

\* A faulty variant of FAISSAddDocuments: index.add takes rows of any width, so
\* vectors of another dimension are stored and their documents appended.
FAISSAddDocumentsAnyWidth(index, documents, texts, metadata, embed_ok, dim) ==
    IF texts = <<>>
    THEN [index |-> index, documents |-> documents, raised |-> "", embed_called |-> FALSE]
    ELSE IF ~embed_ok
    THEN [index |-> index, documents |-> documents,
          raised |-> "EmbedderError", embed_called |-> TRUE]
    ELSE LET embeddings == embed_documents(texts, dim)
             idx == FAISSInitIndex(index, dim)
         IN [index |-> [idx EXCEPT !.xb = @ \o embeddings],
             documents |-> documents \o NewDocuments(texts, metadata),
             raised |-> "", embed_called |-> TRUE]

\* FAISSRetriever.add_documents: the retriever after the call and how the
\* call ended.
FAISSAddDocuments(index, documents, texts, metadata, embed_ok, dim) ==
    IF texts = <<>>
    THEN [index |-> index, documents |-> documents, raised |-> "", embed_called |-> FALSE]
    ELSE IF ~embed_ok
    THEN [index |-> index, documents |-> documents,
          raised |-> "EmbedderError", embed_called |-> TRUE]
    ELSE LET embeddings == embed_documents(texts, dim)
             idx == FAISSInitIndex(index, dim)
         IN IF idx.d # dim
            THEN \* index.add asserts the dimension of its argument
                 [index |-> idx, documents |-> documents,
                  raised |-> "AssertionError", embed_called |-> TRUE]
            ELSE [index |-> [idx EXCEPT !.xb = @ \o embeddings],
                  documents |-> documents \o NewDocuments(texts, metadata),
                  raised |-> "", embed_called |-> TRUE]

\* The (Document, score) pairs built from a search result; idx is the row.
FAISSResults(index, documents, q, order) ==
    LET Kept(i) == i # -1 /\ i <= Len(documents)
        kept == SelectSeq(order, Kept)
    IN [j \in 1..Len(kept) |->
           [idx |-> kept[j], doc |-> documents[kept[j]], score |-> Dot(index.xb[kept[j]], q)]]

\* A faulty variant of FAISSRetrieve: the empty-index guard is missing.
FAISSRetrieveNoGuard(index, documents, query, k, embed_ok, dim) ==
    IF ~embed_ok
    THEN {[raised |-> "EmbedderError", embed_called |-> TRUE, result |-> <<>>]}
    ELSE LET q == embed_query(query, dim)
             kk == Min(k, NTotal(index))
         IN IF dim # index.d \/ kk <= 0
            THEN {[raised |-> "AssertionError", embed_called |-> TRUE, result |-> <<>>]}
            ELSE {[raised |-> "", embed_called |-> TRUE,
                   result |-> FAISSResults(index, documents, q, order)] :
                      order \in IndexFlatIPSearch(index.xb, q, kk)}

\* FAISSRetriever.retrieve: the set of ways the call can end.
FAISSRetrieve(index, documents, query, k, embed_ok, dim) ==
    IF ~index.created \/ NTotal(index) = 0
    THEN {[raised |-> "", embed_called |-> FALSE, result |-> <<>>]}
    ELSE IF ~embed_ok
    THEN {[raised |-> "EmbedderError", embed_called |-> TRUE, result |-> <<>>]}
    ELSE LET q == embed_query(query, dim)
             kk == Min(k, NTotal(index))
         IN IF dim # index.d \/ kk <= 0
            THEN \* index.search asserts d == self.d and k > 0
                 {[raised |-> "AssertionError", embed_called |-> TRUE, result |-> <<>>]}
            ELSE {[raised |-> "", embed_called |-> TRUE,
                   result |-> FAISSResults(index, documents, q, order)] :
                      order \in IndexFlatIPSearch(index.xb, q, kk)}

\* A faulty variant of FAISSClear: the documents are dropped, the index is kept.
FAISSClearKeepsIndex(index, documents) ==
    [index |-> index, documents |-> <<>>, raised |-> ""]

\* FAISSRetriever.clear
FAISSClear(index, documents) ==
    [index |-> NoIndex, documents |-> <<>>, raised |-> ""]

\* A faulty variant of SimpleAddDocuments: the new rows are stacked above the stored
\* rows (np.vstack([embeddings, self._embeddings])).
SimpleAddDocumentsPrepend(ntotal, embeddings, documents, texts, metadata, embed_ok, dim) ==
    IF texts = <<>>
    THEN [ntotal |-> ntotal, embeddings |-> embeddings, documents |-> documents,
          raised |-> "", embed_called |-> FALSE]
    ELSE IF ~embed_ok
    THEN [ntotal |-> ntotal, embeddings |-> embeddings, documents |-> documents,
          raised |-> "EmbedderError", embed_called |-> TRUE]
    ELSE LET new == embed_documents(texts, dim)
         IN IF embeddings.set /\ Len(embeddings.rows[1]) # dim
            THEN [ntotal |-> ntotal, embeddings |-> embeddings, documents |-> documents,
                  raised |-> "ValueError", embed_called |-> TRUE]
            ELSE LET docs == documents \o NewDocuments(texts, metadata)
                 IN [ntotal |-> Len(docs),
                     embeddings |-> [set |-> TRUE,
                                     rows |-> IF embeddings.set
                                              THEN new \o embeddings.rows ELSE new],
                     documents |-> docs,
                     raised |-> "", embed_called |-> TRUE]

\* A faulty variant of SimpleAddDocuments: the Documents are appended before the
\* texts are embedded and stacked.
SimpleAddDocumentsDocsFirst(ntotal, embeddings, documents, texts, metadata, embed_ok, dim) ==
    IF texts = <<>>
    THEN [ntotal |-> ntotal, embeddings |-> embeddings, documents |-> documents,
          raised |-> "", embed_called |-> FALSE]
    ELSE LET docs == documents \o NewDocuments(texts, metadata)
         IN IF ~embed_ok
            THEN [ntotal |-> ntotal, embeddings |-> embeddings, documents |-> docs,
                  raised |-> "EmbedderError", embed_called |-> TRUE]
            ELSE IF embeddings.set /\ Len(embeddings.rows[1]) # dim
            THEN [ntotal |-> ntotal, embeddings |-> embeddings, documents |-> docs,
                  raised |-> "ValueError", embed_called |-> TRUE]
            ELSE [ntotal |-> Len(docs),
                  embeddings |-> [set |-> TRUE,
                                  rows |-> IF embeddings.set
                                           THEN embeddings.rows \o embed_documents(texts, dim)
                                           ELSE embed_documents(texts, dim)],
                  documents |-> docs,
                  raised |-> "", embed_called |-> TRUE]

\* SimpleRetriever.add_documents
SimpleAddDocuments(ntotal, embeddings, documents, texts, metadata, embed_ok, dim) ==
    IF texts = <<>>
    THEN [ntotal |-> ntotal, embeddings |-> embeddings, documents |-> documents,
          raised |-> "", embed_called |-> FALSE]
    ELSE IF ~embed_ok
    THEN [ntotal |-> ntotal, embeddings |-> embeddings, documents |-> documents,
          raised |-> "EmbedderError", embed_called |-> TRUE]
    ELSE LET new == embed_documents(texts, dim)
         IN IF embeddings.set /\ Len(embeddings.rows[1]) # dim
            THEN \* np.vstack refuses rows of another length
                 [ntotal |-> ntotal, embeddings |-> embeddings, documents |-> documents,
                  raised |-> "ValueError", embed_called |-> TRUE]
            ELSE LET docs == documents \o NewDocuments(texts, metadata)
                 IN [ntotal |-> Len(docs),
                     embeddings |-> [set |-> TRUE,
                                     rows |-> IF embeddings.set
                                              THEN embeddings.rows \o new ELSE new],
                     documents |-> docs,
                     raised |-> "", embed_called |-> TRUE]

\* Lines 229-231: the (Document, score) pairs of the rows in top_indices.
SimpleResults(documents, similarities, top_indices) ==
    [j \in 1..Len(top_indices) |->
        [idx |-> top_indices[j], doc |-> documents[top_indices[j]],
         score |-> similarities[top_indices[j]]]]

\* A faulty variant of SimpleRetrieve: the [::-1] reversal is missing, so the top
\* rows come in ascending score.
SimpleRetrieveAscending(embeddings, documents, query, k, embed_ok, dim) ==
    IF ~embeddings.set \/ Len(documents) = 0
    THEN {[raised |-> "", embed_called |-> FALSE, result |-> <<>>]}
    ELSE IF ~embed_ok
    THEN {[raised |-> "EmbedderError", embed_called |-> TRUE, result |-> <<>>]}
    ELSE LET query_emb == embed_query(query, dim)
         IN IF Len(embeddings.rows[1]) # dim
            THEN {[raised |-> "ValueError", embed_called |-> TRUE, result |-> <<>>]}
            ELSE LET similarities == [i \in 1..Len(embeddings.rows) |->
                                         Dot(embeddings.rows[i], query_emb)]
                     kk == Min(k, Len(documents))
                 IN {[raised |-> "", embed_called |-> TRUE,
                      result |-> SimpleResults(documents, similarities, LastK(p, kk))] :
                         p \in ArgSort(similarities)}

\* SimpleRetriever.retrieve: the set of ways the call can end.
SimpleRetrieve(embeddings, documents, query, k, embed_ok, dim) ==
    IF ~embeddings.set \/ Len(documents) = 0
    THEN {[raised |-> "", embed_called |-> FALSE, result |-> <<>>]}
    ELSE IF ~embed_ok
    THEN {[raised |-> "EmbedderError", embed_called |-> TRUE, result |-> <<>>]}
    ELSE LET query_emb == embed_query(query, dim)
         IN IF Len(embeddings.rows[1]) # dim
            THEN \* np.dot refuses operands of different lengths
                 {[raised |-> "ValueError", embed_called |-> TRUE, result |-> <<>>]}
            ELSE LET similarities == [i \in 1..Len(embeddings.rows) |->
                                         Dot(embeddings.rows[i], query_emb)]
                     kk == Min(k, Len(documents))
                 IN {[raised |-> "", embed_called |-> TRUE,
                      result |-> SimpleResults(documents, similarities,
                                               Reverse(LastK(p, kk)))] :
                         p \in ArgSort(similarities)}

\* SimpleRetriever.clear
SimpleClear(ntotal, embeddings, documents) ==
    [ntotal |-> 0, embeddings |-> NoEmbeddings, documents |-> <<>>, raised |-> ""]

----------------------------------------------------------------------------
(* Retriever calls: both variants receive the same call *)

NoOutcome == [raised |-> "", embed_called |-> FALSE, result |-> <<>>]

NoCall == [op |-> "none", texts |-> <<>>, metadata |-> <<>>, query |-> 0, k |-> 0,
           embed_ok |-> TRUE, dim |-> 0, faiss |-> NoOutcome, simple |-> NoOutcome]

RetrieverIdle ==
    /\ faiss_index = NoIndex
    /\ faiss_documents = <<>>
    /\ simple_ntotal = 0
    /\ simple_embeddings = NoEmbeddings
    /\ simple_documents = <<>>
    /\ last = NoCall

\* retriever.add_documents(texts, metadata)
AddDocuments(texts, metadata, embed_ok) ==
    /\ last.op = "none"
    /\ Len(faiss_documents) + Len(texts) <= MaxDocs
    /\ Len(simple_documents) + Len(texts) <= MaxDocs
    /\ LET f == FAISSAddDocuments(faiss_index, faiss_documents, texts, metadata,
                                  embed_ok, dimension)
           s == SimpleAddDocuments(simple_ntotal, simple_embeddings, simple_documents,
                                   texts, metadata, embed_ok, dimension)
       IN /\ faiss_index' = f.index
          /\ faiss_documents' = f.documents
          /\ simple_ntotal' = s.ntotal
          /\ simple_embeddings' = s.embeddings
          /\ simple_documents' = s.documents
          /\ last' = [NoCall EXCEPT
                        !.op = "add", !.texts = texts, !.metadata = metadata,
                        !.embed_ok = embed_ok, !.dim = dimension,
                        !.faiss = [raised |-> f.raised, embed_called |-> f.embed_called,
                                   result |-> <<>>],
                        !.simple = [raised |-> s.raised, embed_called |-> s.embed_called,
                                    result |-> <<>>]]
    /\ UNCHANGED dimension
    /\ UNCHANGED chunker_vars
    /\ UNCHANGED service_vars

\* retriever.retrieve(query, k)
Retrieve(query, k, embed_ok) ==
    /\ last.op = "none"
    /\ \E f \in FAISSRetrieve(faiss_index, faiss_documents, query, k, embed_ok, dimension),
          s \in SimpleRetrieve(simple_embeddings, simple_documents, query, k, embed_ok,
                               dimension) :
          last' = [NoCall EXCEPT
                     !.op = "retrieve", !.query = query, !.k = k,
                     !.embed_ok = embed_ok, !.dim = dimension,
                     !.faiss = f, !.simple = s]
    /\ UNCHANGED <<dimension, faiss_index, faiss_documents, simple_ntotal,
                   simple_embeddings, simple_documents>>
    /\ UNCHANGED chunker_vars
    /\ UNCHANGED service_vars

\* retriever.clear()
Clear ==
    /\ last.op = "none"
    /\ LET f == FAISSClear(faiss_index, faiss_documents)
           s == SimpleClear(simple_ntotal, simple_embeddings, simple_documents)
       IN /\ faiss_index' = f.index
          /\ faiss_documents' = f.documents
          /\ simple_ntotal' = s.ntotal
          /\ simple_embeddings' = s.embeddings
          /\ simple_documents' = s.documents
          /\ last' = [NoCall EXCEPT !.op = "clear", !.dim = dimension,
                        !.faiss = [NoOutcome EXCEPT !.raised = f.raised],
                        !.simple = [NoOutcome EXCEPT !.raised = s.raised]]
    /\ UNCHANGED dimension
    /\ UNCHANGED chunker_vars
    /\ UNCHANGED service_vars

\* The call has returned and its caller has taken the outcome (as in
\* `results = retriever.retrieve(content, k=k)`); the next call can be made.
CallReturns ==
    /\ last.op # "none"
    /\ last' = NoCall
    /\ UNCHANGED <<dimension, faiss_index, faiss_documents, simple_ntotal,
                   simple_embeddings, simple_documents>>
    /\ UNCHANGED chunker_vars
    /\ UNCHANGED service_vars

\* The embedder's cached model is replaced by the other model (the class
\* level cache of Embedder is reset and resolved again): from now on the
\* embedder produces vectors of the other dimension.
EmbedderSwap ==
    /\ \E d \in Dims \ {dimension} :
          /\ dimension' = d
          /\ model' = (IF d = PrimaryDimension THEN PRIMARY_MODEL ELSE FALLBACK_MODEL)
          /\ model_name' = model'
    /\ UNCHANGED <<faiss_index, faiss_documents, simple_ntotal, simple_embeddings,
                   simple_documents, last>>
    /\ UNCHANGED chunker_vars
    /\ UNCHANGED <<embedder_instance, embedder_call, race_vars, chat_vars, session_vars>>

----------------------------------------------------------------------------
(* ChatService: stream_message_with_rag and the stream_message it delegates to *)

\* Strings are sequences of pieces; a piece is a whitespace character or a
\* run of text that holds no whitespace at either end.
INSTRUCTION == "Use the following context to answer the user's question:"
DEFAULT_SENTENCE == "You are a helpful assistant."
ERROR_MESSAGE == "Error"

\* "\n\n"
NewLines == <<"\n", "\n">>

\* "\n\n---\n"
Separator == <<"\n", "\n", "---", "\n">>

\* The text of a stored document (a stripped, non-empty chunk) as a string.
TextString(t) == <<ToString(t)>>

RECURSIVE JoinFrom(_, _, _)
JoinFrom(strings, sep, i) ==
    IF i > Len(strings) THEN <<>>
    ELSE IF i = Len(strings) THEN strings[i]
    ELSE strings[i] \o sep \o JoinFrom(strings, sep, i + 1)

\* sep.join(strings)
Join(strings, sep) == JoinFrom(strings, sep, 1)

\* Lines 245-246: the texts of the results, in their order, joined.
ContextText(results) ==
    Join([i \in 1..Len(results) |-> TextString(results[i].doc.text)], Separator)

\* The exceptions `except Exception` catches.
CaughtByExceptException(e) == e \notin {"", "KeyboardInterrupt", "SystemExit", "GeneratorExit"}

\* The retrievers a caller can pass: None, a FAISSRetriever, a SimpleRetriever.
RetrieverArgs == {"None", "faiss", "simple"}

\* Lines 230-237: documents is non-empty, or index is set and counts rows.
HasDocs(retriever) ==
    IF retriever = "faiss"
    THEN Len(faiss_documents) > 0 \/ (faiss_index.created /\ NTotal(faiss_index) > 0)
    ELSE Len(simple_documents) > 0 \/ simple_ntotal > 0

\* retriever.retrieve(content, k=k) on the retriever passed.
RetrieveOutcomes(retriever, content, k, embed_ok) ==
    IF retriever = "faiss"
    THEN FAISSRetrieve(faiss_index, faiss_documents, content, k, embed_ok, dimension)
    ELSE SimpleRetrieve(simple_embeddings, simple_documents, content, k, embed_ok, dimension)

\* Lines 248-259: the prompt with the context appended.
WithContext(system_prompt, context_text) ==
    IF system_prompt # <<>>
    THEN system_prompt \o NewLines \o <<INSTRUCTION>> \o NewLines \o context_text
    ELSE <<DEFAULT_SENTENCE, " ", INSTRUCTION>> \o NewLines \o context_text

\* A faulty variant of AugmentedPrompt: the try / except around the retrieval is
\* missing, so the exception of retrieve leaves stream_message_with_rag.
AugmentedPromptNoTry(system_prompt, retriever, has_docs, outcome) ==
    IF retriever = "None" \/ ~has_docs
    THEN [prompt |-> system_prompt, raised |-> "", retrieved |-> FALSE]
    ELSE IF outcome.raised # ""
    THEN [prompt |-> system_prompt, raised |-> outcome.raised, retrieved |-> TRUE]
    ELSE IF outcome.result = <<>>
    THEN [prompt |-> system_prompt, raised |-> "", retrieved |-> TRUE]
    ELSE [prompt |-> WithContext(system_prompt, ContextText(outcome.result)),
          raised |-> "", retrieved |-> TRUE]

\* A faulty variant of AugmentedPrompt: the context is joined in reverse order.
AugmentedPromptReversed(system_prompt, retriever, has_docs, outcome) ==
    IF retriever = "None" \/ ~has_docs
    THEN [prompt |-> system_prompt, raised |-> "", retrieved |-> FALSE]
    ELSE IF outcome.raised # ""
    THEN [prompt |-> system_prompt,
          raised |-> IF CaughtByExceptException(outcome.raised) THEN "" ELSE outcome.raised,
          retrieved |-> TRUE]
    ELSE IF outcome.result = <<>>
    THEN [prompt |-> system_prompt, raised |-> "", retrieved |-> TRUE]
    ELSE [prompt |-> WithContext(system_prompt, ContextText(Reverse(outcome.result))),
          raised |-> "", retrieved |-> TRUE]

\* Lines 225-265: the prompt handed to stream_message, the exception that
\* leaves the block ("" when none does), and whether retrieve was called.
\* outcome is how retriever.retrieve ended; it is read only when the call
\* is made.
AugmentedPrompt(system_prompt, retriever, has_docs, outcome) ==
    IF retriever = "None" \/ ~has_docs
    THEN [prompt |-> system_prompt, raised |-> "", retrieved |-> FALSE]
    ELSE IF outcome.raised # ""
    THEN [prompt |-> system_prompt,
          raised |-> IF CaughtByExceptException(outcome.raised) THEN "" ELSE outcome.raised,
          retrieved |-> TRUE]
    ELSE IF outcome.result = <<>>
    THEN [prompt |-> system_prompt, raised |-> "", retrieved |-> TRUE]
    ELSE [prompt |-> WithContext(system_prompt, ContextText(outcome.result)),
          raised |-> "", retrieved |-> TRUE]

Message(role, content) == [role |-> role, content |-> content]

\* MessageFormatter.format_messages_for_api: the stripped system prompt
\* when it is not blank, then the history entries that have content.
FormatMessagesForApi(history, system_prompt) ==
    LET HasContent(m) == m.content # <<>> /\ m.role \in {"user", "assistant"}
    IN (IF system_prompt # <<>> /\ Strip(system_prompt) # <<>>
        THEN <<Message("system", Strip(system_prompt))>> ELSE <<>>)
       \o SelectSeq(history, HasContent)

\* How client.chat_complete_stream ends: it yields the whole response, it
\* raises before the first chunk, or it raises after a chunk.
StreamOutcomes == {"complete", "raises", "raises_midway"}

\* A faulty variant of StreamMessage: when the stream raises, the error text is
\* yielded but not saved to the conversation.
StreamMessageDropsError(history, content, system_prompt, stream) ==
    LET recorded == Append(history, Message("user", content))
        request == Append(FormatMessagesForApi(history, system_prompt),
                          Message("user", content))
    IN [request |-> request,
        yielded |-> IF stream = "complete" THEN <<"response">>
                    ELSE IF stream = "raises" THEN <<ERROR_MESSAGE>>
                    ELSE <<"resp">>,
        messages |-> IF stream = "complete"
                     THEN Append(recorded, Message("assistant", <<"response">>))
                     ELSE recorded]

\* ChatService.stream_message: the conversation after the call, the request
\* sent to the model, and the content of the last tuple yielded.
StreamMessage(history, content, system_prompt, stream) ==
    LET recorded == Append(history, Message("user", content))
        request == Append(FormatMessagesForApi(history, system_prompt),
                          Message("user", content))
    IN [request |-> request,
        yielded |-> IF stream = "complete" THEN <<"response">>
                    ELSE IF stream = "raises" THEN <<ERROR_MESSAGE>>
                    ELSE <<"resp">>,
        messages |-> Append(recorded,
                            Message("assistant",
                                    IF stream = "complete" THEN <<"response">>
                                    ELSE <<ERROR_MESSAGE>>))]

\* How client.chat_complete ends: a response with content, a response
\* without choices (or without content), or an exception.
ApiOutcomes == {"complete", "no_choices", "raises"}

\* ChatService.send_message: the conversation after the call, the request
\* sent to the model, and the content of the ChatResponse returned.
SendMessage(history, content, system_prompt, api) ==
    LET recorded == Append(history, Message("user", content))
        request == Append(FormatMessagesForApi(history, system_prompt),
                          Message("user", content))
        reply == IF api = "complete" THEN <<"response">>
                 ELSE IF api = "no_choices" THEN <<>>
                 ELSE <<ERROR_MESSAGE>>
    IN [request |-> request,
        yielded |-> reply,
        messages |-> Append(recorded, Message("assistant", reply))]

NoTurn == [op |-> "none", content |-> 0, retriever |-> "None", system_prompt |-> <<>>,
           k |-> 0, has_docs |-> FALSE, retrieved |-> FALSE, retrieval |-> NoOutcome,
           prompt |-> <<>>, request |-> <<>>, yielded |-> <<>>, raised |-> "",
           history |-> <<>>, api |-> ""]

\* The system prompts a caller passes: none (None or ""), blank, text.
SystemPrompts == {<<>>, <<" ">>, <<"Be", " ", "brief.", " ">>}

\* chat_service.stream_message_with_rag(content, retriever, system_prompt, k=k),
\* consumed to its end by the caller.
StreamMessageWithRag(content, retriever, system_prompt, k, embed_ok, stream) ==
    /\ turn.op = "none"
    /\ last.op = "none"
    /\ Len(messages) + 2 <= 2 * MaxTurns
    /\ \E outcome \in (IF retriever = "None" THEN {NoOutcome}
                       ELSE RetrieveOutcomes(retriever, content, k, embed_ok)) :
          LET has_docs == retriever # "None" /\ HasDocs(retriever)
              a == AugmentedPrompt(system_prompt, retriever, has_docs, outcome)
              m == StreamMessage(messages, TextString(content), a.prompt, stream)
              base == [NoTurn EXCEPT
                          !.op = "stream_message_with_rag", !.content = content,
                          !.retriever = retriever, !.system_prompt = system_prompt,
                          !.k = k, !.has_docs = has_docs, !.retrieved = a.retrieved,
                          !.retrieval = IF a.retrieved THEN outcome ELSE NoOutcome,
                          !.history = messages, !.api = stream]
          IN IF a.raised # ""
             THEN /\ turn' = [base EXCEPT !.raised = a.raised]
                  /\ UNCHANGED <<messages, turns_done>>
             ELSE /\ turn' = [base EXCEPT !.prompt = a.prompt, !.request = m.request,
                                          !.yielded = m.yielded]
                  /\ messages' = m.messages
                  /\ turns_done' = turns_done + 1
    /\ UNCHANGED <<chunker_vars, retriever_vars, embedder_vars, session_vars>>

\* The caller has consumed the generator; the next turn can start.
TurnReturns ==
    /\ turn.op # "none"
    /\ turn' = NoTurn
    /\ UNCHANGED <<messages, turns_done>>
    /\ UNCHANGED <<chunker_vars, retriever_vars, embedder_vars, session_vars>>

\* chat_service.send_message(content, system_prompt)
SendMessageCall(content, system_prompt, api) ==
    /\ turn.op = "none"
    /\ Len(messages) + 2 <= MaxHistory
    /\ LET m == SendMessage(messages, TextString(content), system_prompt, api)
       IN /\ turn' = [NoTurn EXCEPT
                         !.op = "send_message", !.content = content,
                         !.system_prompt = system_prompt, !.prompt = system_prompt,
                         !.request = m.request, !.yielded = m.yielded,
                         !.history = messages, !.api = api]
          /\ messages' = m.messages
          /\ turns_done' = turns_done + 1
    /\ UNCHANGED <<chunker_vars, retriever_vars, embedder_vars, session_vars>>

\* chat_service.stream_message(content, system_prompt), consumed to its end
\* by the caller.
StreamMessageCall(content, system_prompt, stream) ==
    /\ turn.op = "none"
    /\ Len(messages) + 2 <= MaxHistory
    /\ LET m == StreamMessage(messages, TextString(content), system_prompt, stream)
       IN /\ turn' = [NoTurn EXCEPT
                         !.op = "stream_message", !.content = content,
                         !.system_prompt = system_prompt, !.prompt = system_prompt,
                         !.request = m.request, !.yielded = m.yielded,
                         !.history = messages, !.api = stream]
          /\ messages' = m.messages
          /\ turns_done' = turns_done + 1
    /\ UNCHANGED <<chunker_vars, retriever_vars, embedder_vars, session_vars>>

\* chat_service.clear_conversation(): state_manager.clear_history()
ClearConversation ==
    /\ turn.op = "none"
    /\ messages # <<>>
    /\ messages' = <<>>
    /\ turns_done' = 0
    /\ UNCHANGED turn
    /\ UNCHANGED <<chunker_vars, retriever_vars, embedder_vars, session_vars>>

\* Between two turns the chunks of an upload are added to the retriever
\* (retriever.add_documents(chunks), no metadata).
UploadBetweenTurns(texts) ==
    /\ turn.op = "none"
    /\ AddDocuments(texts, <<>>, TRUE)

\* Between two turns the stored documents are removed (retriever.clear()).
ClearBetweenTurns ==
    /\ turn.op = "none"
    /\ Clear

ChatIdle ==
    /\ messages = <<>>
    /\ turn = NoTurn
    /\ turns_done = 0

----------------------------------------------------------------------------
(* ChatStateManager and SessionManager: chat sessions and the stored retriever *)

\* Session ids are uuid4 strings in the source; here the n-th id uuid4 gives
\* out is n, which is as fresh. Names are sequences of string pieces.

\* f"Session {self._session_counter}"
DefaultName(counter) == <<"Session ", ToString(counter)>>

\* The names a caller gives: None stands for no name.
NameArgs == {<<"None">>, <<"A">>}

\* SessionManager(): one initial session, which is current; st.session_state
\* holds no retriever.
SessionsIdle ==
    /\ sessions = <<1>>
    /\ session_names = <<DefaultName(1)>>
    /\ uuids = 1
    /\ current_session_id = 1
    /\ session_counter = 1
    /\ rag_retriever = "absent"
    /\ doc_sessions = <<>>
    /\ session_raised = ""

SessionIds == {sessions[i] : i \in 1..Len(sessions)}

\* ChatStateManager.retriever: the value under RETRIEVER_KEY, None when absent.
\* What it shows of the stored documents: for each, the session it was added in.
VisibleDocSessions == IF rag_retriever = "retriever" THEN doc_sessions ELSE <<>>

session_frame ==
    /\ UNCHANGED <<chunker_vars, embedder_vars, chat_vars>>

\* state_manager.create_new_session(): create_session, then switch_session.
CreateNewSession ==
    /\ uuids < MaxSessions
    /\ session_counter' = session_counter + 1
    /\ uuids' = uuids + 1
    /\ sessions' = Append(sessions, uuids + 1)
    /\ session_names' = Append(session_names, DefaultName(session_counter + 1))
    /\ current_session_id' = uuids + 1
    /\ session_raised' = ""
    /\ UNCHANGED <<rag_retriever, doc_sessions>>
    /\ UNCHANGED retriever_vars
    /\ session_frame

\* state_manager.switch_to_session(session_id): ValueError for an unknown id.
SwitchToSession(session_id) ==
    /\ IF session_id \in SessionIds
       THEN /\ current_session_id' = session_id
            /\ session_raised' = ""
       ELSE /\ session_raised' = "ValueError"
            /\ UNCHANGED current_session_id
    /\ UNCHANGED <<sessions, session_names, uuids, session_counter, rag_retriever,
                   doc_sessions>>
    /\ UNCHANGED retriever_vars
    /\ session_frame

\* The names of the sessions of `sessions` other than session_id.
NamesWithout(session_id) ==
    LET keep == {i \in 1..Len(sessions) : sessions[i] # session_id}
        RECURSIVE From(_)
        From(i) == IF i > Len(sessions) THEN <<>>
                   ELSE IF i \in keep THEN <<session_names[i]>> \o From(i + 1)
                   ELSE From(i + 1)
    IN From(1)

\* A faulty variant of DeleteSession: current_session_id is left alone when
\* the current session is deleted.
DeleteSessionKeepsCurrent(session_id) ==
    /\ session_raised' = ""
    /\ IF session_id \notin SessionIds
       THEN UNCHANGED <<sessions, session_names>>
       ELSE LET IsOther(id) == id # session_id
            IN /\ sessions' = SelectSeq(sessions, IsOther)
               /\ session_names' = NamesWithout(session_id)
    /\ UNCHANGED <<current_session_id, session_counter, uuids>>
    /\ UNCHANGED <<rag_retriever, doc_sessions>>
    /\ UNCHANGED retriever_vars
    /\ session_frame

\* state_manager.delete_session(session_id): an unknown id is ignored; when
\* the current session is deleted the first remaining one becomes current,
\* or a new one is created.
DeleteSession(session_id) ==
    /\ session_raised' = ""
    /\ IF session_id \notin SessionIds
       THEN UNCHANGED <<sessions, session_names, uuids, current_session_id,
                        session_counter>>
       ELSE LET IsOther(id) == id # session_id
                remaining == SelectSeq(sessions, IsOther)
            IN IF current_session_id # session_id
               THEN /\ sessions' = remaining
                    /\ session_names' = NamesWithout(session_id)
                    /\ UNCHANGED <<current_session_id, session_counter, uuids>>
               ELSE IF remaining # <<>>
               THEN /\ sessions' = remaining
                    /\ session_names' = NamesWithout(session_id)
                    /\ current_session_id' = remaining[1]
                    /\ UNCHANGED <<session_counter, uuids>>
               ELSE /\ uuids < MaxSessions
                    /\ session_counter' = session_counter + 1
                    /\ uuids' = uuids + 1
                    /\ sessions' = <<uuids + 1>>
                    /\ session_names' = <<DefaultName(session_counter + 1)>>
                    /\ current_session_id' = uuids + 1
    /\ UNCHANGED <<rag_retriever, doc_sessions>>
    /\ UNCHANGED retriever_vars
    /\ session_frame

\* session_manager.create_session(name): the new session is appended and
\* does not become current.
CreateSession(name) ==
    /\ uuids < MaxSessions
    /\ session_counter' = session_counter + 1
    /\ uuids' = uuids + 1
    /\ sessions' = Append(sessions, uuids + 1)
    /\ session_names' = Append(session_names,
                               IF name = <<"None">> THEN DefaultName(session_counter + 1)
                               ELSE name)
    /\ session_raised' = ""
    /\ UNCHANGED <<current_session_id, rag_retriever, doc_sessions>>
    /\ UNCHANGED retriever_vars
    /\ session_frame

\* session_manager.rename_session(session_id, new_name): ValueError for an
\* unknown id.
RenameSession(session_id, new_name) ==
    /\ IF session_id \in SessionIds
       THEN /\ session_names' = [i \in 1..Len(sessions) |->
                                    IF sessions[i] = session_id THEN new_name
                                    ELSE session_names[i]]
            /\ session_raised' = ""
       ELSE /\ session_raised' = "ValueError"
            /\ UNCHANGED session_names
    /\ UNCHANGED <<sessions, uuids, current_session_id, session_counter, rag_retriever,
                   doc_sessions>>
    /\ UNCHANGED retriever_vars
    /\ session_frame

\* The strings given to import_session: the export of a session, text that
\* is not JSON, JSON that is no object or lacks a key, and an object whose
\* created_at is no ISO date.
JsonStrings ==
    {[kind |-> "session", name |-> <<"A">>], [kind |-> "session", name |-> DefaultName(1)],
     [kind |-> "not_json", name |-> <<>>], [kind |-> "missing_key", name |-> <<>>],
     [kind |-> "bad_created_at", name |-> <<"A">>]}

\* session_manager.import_session(json_str): the parsed session is appended
\* under a new id; JSONDecodeError, KeyError and TypeError give None, the
\* ValueError of datetime.fromisoformat leaves the call.
ImportSession(json_str) ==
    /\ IF json_str.kind = "session"
       THEN /\ uuids < MaxSessions
            /\ uuids' = uuids + 1
            /\ sessions' = Append(sessions, uuids + 1)
            /\ session_names' = Append(session_names, json_str.name)
            /\ session_raised' = ""
       ELSE /\ session_raised' = (IF json_str.kind = "bad_created_at"
                                  THEN "ValueError" ELSE "")
            /\ UNCHANGED <<sessions, session_names, uuids>>
    /\ UNCHANGED <<current_session_id, session_counter, rag_retriever, doc_sessions>>
    /\ UNCHANGED retriever_vars
    /\ session_frame

\* session_manager.duplicate_session(session_id): a copy under a new id and
\* the name with " (Copy)" is appended; None for an unknown id.
DuplicateSession(session_id) ==
    /\ session_raised' = ""
    /\ IF session_id \in SessionIds
       THEN LET i == CHOOSE i \in 1..Len(sessions) : sessions[i] = session_id
            IN /\ uuids < MaxSessions
               /\ uuids' = uuids + 1
               /\ sessions' = Append(sessions, uuids + 1)
               /\ session_names' = Append(session_names, session_names[i] \o <<" (Copy)">>)
       ELSE UNCHANGED <<sessions, session_names, uuids>>
    /\ UNCHANGED <<current_session_id, session_counter, rag_retriever, doc_sessions>>
    /\ UNCHANGED retriever_vars
    /\ session_frame

\* state_manager.retriever = create_retriever(): a fresh retriever is stored
\* under RETRIEVER_KEY.
SetRetriever ==
    /\ rag_retriever' = "retriever"
    /\ doc_sessions' = <<>>
    /\ faiss_index' = NoIndex
    /\ faiss_documents' = <<>>
    /\ simple_ntotal' = 0
    /\ simple_embeddings' = NoEmbeddings
    /\ simple_documents' = <<>>
    /\ session_raised' = ""
    /\ UNCHANGED <<dimension, last>>
    /\ UNCHANGED <<sessions, session_names, uuids, current_session_id, session_counter>>
    /\ session_frame

\* DocumentUpload._process_upload, from the chunks on: add_documents(chunks)
\* on the stored retriever when there is one; every exception is caught and
\* shown.
ProcessUpload(texts, embed_ok) ==
    /\ texts # <<>>
    /\ Len(faiss_documents) + Len(texts) <= MaxDocs
    /\ session_raised' = ""
    /\ IF rag_retriever # "retriever"
       THEN UNCHANGED <<faiss_index, faiss_documents, simple_ntotal, simple_embeddings,
                        simple_documents, doc_sessions>>
       ELSE LET f == FAISSAddDocuments(faiss_index, faiss_documents, texts, <<>>,
                                       embed_ok, dimension)
                s == SimpleAddDocuments(simple_ntotal, simple_embeddings, simple_documents,
                                        texts, <<>>, embed_ok, dimension)
            IN /\ faiss_index' = f.index
               /\ faiss_documents' = f.documents
               /\ simple_ntotal' = s.ntotal
               /\ simple_embeddings' = s.embeddings
               /\ simple_documents' = s.documents
               /\ doc_sessions' = IF f.raised = ""
                                  THEN doc_sessions \o
                                       [i \in 1..Len(texts) |-> current_session_id]
                                  ELSE doc_sessions
    /\ UNCHANGED <<dimension, last>>
    /\ UNCHANGED <<sessions, session_names, uuids, current_session_id, session_counter,
                   rag_retriever>>
    /\ session_frame

\* state_manager.clear_retriever(): clear() the stored retriever and delete
\* the key.
ClearRetriever ==
    /\ rag_retriever' = "absent"
    /\ session_raised' = ""
    /\ IF rag_retriever = "retriever"
       THEN LET f == FAISSClear(faiss_index, faiss_documents)
                s == SimpleClear(simple_ntotal, simple_embeddings, simple_documents)
            IN /\ faiss_index' = f.index
               /\ faiss_documents' = f.documents
               /\ simple_ntotal' = s.ntotal
               /\ simple_embeddings' = s.embeddings
               /\ simple_documents' = s.documents
               /\ doc_sessions' = <<>>
       ELSE UNCHANGED <<faiss_index, faiss_documents, simple_ntotal, simple_embeddings,
                        simple_documents, doc_sessions>>
    /\ UNCHANGED <<dimension, last>>
    /\ UNCHANGED <<sessions, session_names, uuids, current_session_id, session_counter>>
    /\ session_frame

----------------------------------------------------------------------------
(* Specifications *)

\* The retrievers: a fresh FAISSRetriever and a fresh SimpleRetriever over
\* one embedder.
Init ==
    /\ ChunkerIdle
    /\ dimension \in Dims
    /\ EmbedderLoaded(dimension)
    /\ RetrieverIdle
    /\ ChatIdle
    /\ SessionsIdle

Next ==
    \/ \E texts \in SeqsUpTo(Texts, MaxBatch), metadata \in MetadataArgs, ok \in BOOLEAN :
          AddDocuments(texts, metadata, ok)
    \/ \E query \in Texts, k \in 0..(MaxDocs + 1), ok \in BOOLEAN :
          Retrieve(query, k, ok)
    \/ Clear
    \/ CallReturns
    \/ EmbedderSwap

Spec == Init /\ [][Next]_vars

\* The document processor: construction, then one call.
ChunkInit ==
    /\ ChunkerIdle
    /\ dimension = CHOOSE d \in Dims : \A e \in Dims : d <= e
    /\ EmbedderLoaded(dimension)
    /\ RetrieverIdle
    /\ ChatIdle
    /\ SessionsIdle

ChunkNext ==
    \/ \E size \in 0..MaxChunkSize, overlap \in 0..MaxChunkSize :
          DocumentProcessorInit(size, overlap)
    \/ ProcessCall
    \/ \E t \in SeqsUpTo(Chars, MaxTextLen) : ChunkTextCall(t)
    \/ ChunkLoopBody
    \/ ChunkLoopExit
    \/ ChunkAfterLoop

ChunkSpec == ChunkInit /\ [][ChunkNext]_vars

\* The Embedder of a fresh process: nothing is loaded.
EmbedInit ==
    /\ ChunkerIdle
    /\ dimension = Unresolved.dimension
    /\ model = Unresolved.model
    /\ model_name = Unresolved.model_name
    /\ embedder_instance = FALSE
    /\ embedder_call = NoEmbedderCall
    /\ ThreadsIdle
    /\ RetrieverIdle
    /\ ChatIdle
    /\ SessionsIdle

EmbedNext ==
    \/ EmbedderNew
    \/ GetEmbedder
    \/ \E primary_ok \in BOOLEAN, fallback_ok \in BOOLEAN :
          GetModelCall(primary_ok, fallback_ok)
    \/ \E primary_ok \in BOOLEAN, fallback_ok \in BOOLEAN :
          DimensionCall(primary_ok, fallback_ok)
    \/ \E primary_ok \in BOOLEAN, fallback_ok \in BOOLEAN :
          ModelNameCall(primary_ok, fallback_ok)
    \/ \E texts \in SeqsUpTo(Texts, MaxBatch), primary_ok \in BOOLEAN, fallback_ok \in BOOLEAN :
          EmbedDocumentsCall(texts, primary_ok, fallback_ok)
    \/ \E query \in Texts, primary_ok \in BOOLEAN, fallback_ok \in BOOLEAN :
          EmbedQueryCall(query, primary_ok, fallback_ok)

EmbedSpec == EmbedInit /\ [][EmbedNext]_vars

\* Two threads of a fresh process call get_model; each statement of get_model
\* is one step, and the steps of the two threads interleave.
RaceInit ==
    /\ ChunkerIdle
    /\ dimension = Unresolved.dimension
    /\ model = Unresolved.model
    /\ model_name = Unresolved.model_name
    /\ embedder_instance = TRUE
    /\ embedder_call = NoEmbedderCall
    /\ ThreadsIdle
    /\ RetrieverIdle
    /\ ChatIdle
    /\ SessionsIdle

RaceNext ==
    \E t \in Threads :
        \/ ThreadCallsGetModel(t)
        \/ ThreadTestsModel(t)
        \/ \E ok \in BOOLEAN : ThreadLoadsPrimary(t, ok)
        \/ ThreadSetsPrimaryName(t)
        \/ ThreadSetsPrimaryDimension(t)
        \/ \E ok \in BOOLEAN : ThreadLoadsFallback(t, ok)
        \/ ThreadSetsFallbackName(t)
        \/ ThreadSetsFallbackDimension(t)
        \/ ThreadReturns(t)

RaceSpec == RaceInit /\ [][RaceNext]_vars

\* The chat service over a retriever that receives uploads.
ChatInit ==
    /\ ChunkerIdle
    /\ dimension = PrimaryDimension
    /\ EmbedderLoaded(dimension)
    /\ RetrieverIdle
    /\ ChatIdle
    /\ SessionsIdle

ChatNext ==
    \/ \E texts \in SeqsUpTo(Texts, MaxBatch) : UploadBetweenTurns(texts)
    \/ ClearBetweenTurns
    \/ CallReturns
    \/ \E content \in Texts, retriever \in RetrieverArgs, system_prompt \in SystemPrompts,
          k \in 0..MaxDocs, embed_ok \in BOOLEAN, stream \in StreamOutcomes :
          StreamMessageWithRag(content, retriever, system_prompt, k, embed_ok, stream)
    \/ TurnReturns
    \/ ClearConversation

ChatSpec == ChatInit /\ [][ChatNext]_vars

\* The chat service without documents: turns of send_message and
\* stream_message on one conversation.
TurnInit ==
    /\ ChunkerIdle
    /\ dimension = PrimaryDimension
    /\ EmbedderLoaded(dimension)
    /\ RetrieverIdle
    /\ ChatIdle
    /\ SessionsIdle

TurnNext ==
    \/ \E content \in Texts, system_prompt \in SystemPrompts, api \in ApiOutcomes :
          SendMessageCall(content, system_prompt, api)
    \/ \E content \in Texts, system_prompt \in SystemPrompts, stream \in StreamOutcomes :
          StreamMessageCall(content, system_prompt, stream)
    \/ TurnReturns
    \/ ClearConversation

TurnSpec == TurnInit /\ [][TurnNext]_vars

\* The chat sessions of one browser session and its stored retriever.
SessionInit ==
    /\ ChunkerIdle
    /\ dimension = PrimaryDimension
    /\ EmbedderLoaded(dimension)
    /\ RetrieverIdle
    /\ ChatIdle
    /\ SessionsIdle

SessionNext ==
    \/ CreateNewSession
    \/ \E session_id \in 1..MaxSessions : SwitchToSession(session_id)
    \/ \E session_id \in 1..MaxSessions : DeleteSession(session_id)
    \/ SetRetriever
    \/ \E texts \in SeqsUpTo(Texts, MaxBatch), embed_ok \in BOOLEAN :
          ProcessUpload(texts, embed_ok)
    \/ ClearRetriever

SessionSpec == SessionInit /\ [][SessionNext]_vars

\* One SessionManager and every operation that changes its sessions.
ManagerInit ==
    /\ ChunkerIdle
    /\ dimension = PrimaryDimension
    /\ EmbedderLoaded(dimension)
    /\ RetrieverIdle
    /\ ChatIdle
    /\ SessionsIdle

ManagerNext ==
    \/ \E name \in NameArgs : CreateSession(name)
    \/ \E session_id \in 1..MaxSessions : SwitchToSession(session_id)
    \/ \E session_id \in 1..MaxSessions : DeleteSession(session_id)
    \/ \E session_id \in 1..MaxSessions, new_name \in NameArgs \ {<<"None">>} :
          RenameSession(session_id, new_name)
    \/ \E json_str \in JsonStrings : ImportSession(json_str)
    \/ \E session_id \in 1..MaxSessions : DuplicateSession(session_id)

ManagerSpec == ManagerInit /\ [][ManagerNext]_vars

----------------------------------------------------------------------------
(* Properties *)

TextsOf(documents) == [i \in 1..Len(documents) |-> documents[i].text]

DocsOf(result) == [i \in 1..Len(result) |-> result[i].doc]

IdxOf(result) == {result[i].idx : i \in 1..Len(result)}

\* The step is an add_documents call; its arguments are recorded in last'.
AddStep ==
    /\ last'.op = "add"
    /\ AddDocuments(last'.texts, last'.metadata, last'.embed_ok)

AddEmptyStep == \E metadata \in MetadataArgs, ok \in BOOLEAN : AddDocuments(<<>>, metadata, ok)

\* C1: for every non-empty text and valid (chunk_size, chunk_overlap) the
\* chunking loop terminates and returns: every pass through the loop must
\* move start forward by at least one character, so the loop is left after
\* at most len(text) passes.
ChunkLoopTerminates ==
    (pc = "loop" /\ text # <<>>) => iterations <= Len(text)

\* Row i of a FAISS index is the embedding of documents[i].text.
FAISSAligned ==
    /\ NTotal(faiss_index) = Len(faiss_documents)
    /\ \A i \in 1..Len(faiss_documents) :
          faiss_index.xb[i] = Encode(faiss_documents[i].text, faiss_index.d)

\* Row i of the matrix of a SimpleRetriever is the embedding of documents[i].text.
SimpleAligned ==
    /\ Len(simple_embeddings.rows) = Len(simple_documents)
    /\ simple_ntotal = Len(simple_documents)
    /\ \A i \in 1..Len(simple_documents) :
          simple_embeddings.rows[i] =
              Encode(simple_documents[i].text, Len(simple_embeddings.rows[1]))

\* An add_documents call that returns appends its texts, in their order,
\* after the documents already stored.
AddAppendsInOrder ==
    AddStep =>
        /\ last'.faiss.raised = "" =>
              TextsOf(faiss_documents') = TextsOf(faiss_documents) \o last'.texts
        /\ last'.simple.raised = "" =>
              TextsOf(simple_documents') = TextsOf(simple_documents) \o last'.texts

\* C2: in every reachable state of either retriever the number of stored
\* vectors equals len(documents), the vector at row i is the embedding of
\* documents[i].text, and batches are stored in insertion order.
DocumentsAlignedWithVectors ==
    /\ [](FAISSAligned /\ SimpleAligned)
    /\ [][AddAppendsInOrder]_vars

DocumentsAlignedWitness ==
    /\ last.op = "add"
    /\ Len(last.texts) = 1
    /\ Len(faiss_documents) >= 2
    /\ Len(simple_documents) >= 2
    /\ faiss_documents[1].text # faiss_documents[Len(faiss_documents)].text

\* A retrieve call on a non-empty index returned the min(k, n) best rows.
TopK(result, raised, scores, k) ==
    /\ raised = ""
    /\ Len(result) = Min(k, Len(scores))
    /\ \A i \in 1..Len(result) : \A j \in (1..Len(scores)) \ IdxOf(result) :
          result[i].score >= scores[j]

\* C3: on a non-empty index with n documents, retrieve(query, k) with k >= 0
\* returns exactly min(k, n) pairs, each scoring at least as high as every
\* document that was not returned.
RetrieveReturnsTopK ==
    (/\ last.op = "retrieve"
     /\ last.embed_ok
     /\ Len(faiss_documents) > 0
     /\ Len(simple_documents) > 0
     /\ faiss_index.d = last.dim
     /\ Len(simple_embeddings.rows[1]) = last.dim)
    => LET q == embed_query(last.query, last.dim)
       IN /\ TopK(last.faiss.result, last.faiss.raised,
                  [i \in 1..NTotal(faiss_index) |-> Dot(faiss_index.xb[i], q)], last.k)
          /\ TopK(last.simple.result, last.simple.raised,
                  [i \in 1..Len(simple_embeddings.rows) |->
                      Dot(simple_embeddings.rows[i], q)], last.k)

\* The pairs of a result come in non-increasing score, and each pair holds
\* a stored document with the inner product of the query and its vector.
OrderedByScore(result, documents, rows, q) ==
    /\ \A i \in 1..(Len(result) - 1) : result[i].score >= result[i + 1].score
    /\ \A i \in 1..Len(result) :
          /\ result[i].idx \in 1..Len(documents)
          /\ result[i].doc = documents[result[i].idx]
          /\ result[i].score = Dot(rows[result[i].idx], q)

\* C4: the list retrieve returns is ordered by non-increasing score and
\* every score is the inner product of the query vector with the stored
\* vector of the returned document.
RetrieveOrderedByScore ==
    last.op = "retrieve" =>
        /\ OrderedByScore(last.faiss.result, faiss_documents, faiss_index.xb,
                          embed_query(last.query, last.dim))
        /\ OrderedByScore(last.simple.result, simple_documents, simple_embeddings.rows,
                          embed_query(last.query, last.dim))

RetrieveOrderedWitness ==
    /\ last.op = "retrieve"
    /\ Len(last.faiss.result) >= 2
    /\ Len(last.simple.result) >= 2
    /\ last.simple.result[1].score > last.simple.result[2].score
    /\ last.faiss.result[1].score > last.faiss.result[2].score

\* C5: after the same calls both variants answer every retrieve(query, k)
\* alike: the same documents in the same order.
RetrieversAgree ==
    (last.op = "retrieve" /\ last.embed_ok) =>
        /\ (last.faiss.raised = "") = (last.simple.raised = "")
        /\ DocsOf(last.faiss.result) = DocsOf(last.simple.result)

\* C6: retrieve on a retriever that holds no documents returns the empty
\* list, raises nothing and does not call the embedder.
RetrieveOnEmptyIsEmpty ==
    (last.op = "retrieve" /\ faiss_documents = <<>> /\ simple_documents = <<>>) =>
        /\ last.faiss = [raised |-> "", embed_called |-> FALSE, result |-> <<>>]
        /\ last.simple = [raised |-> "", embed_called |-> FALSE, result |-> <<>>]

RetrieveOnEmptyWitness ==
    /\ last.op = "retrieve"
    /\ ~last.embed_ok
    /\ last.k > 0
    /\ faiss_documents = <<>>
    /\ simple_documents = <<>>
    /\ last.faiss.result = <<>>
    /\ last.simple.result = <<>>

\* Nothing is stored: the state of a fresh retriever of either variant.
RetrieversEmpty ==
    /\ faiss_documents = <<>>
    /\ NTotal(faiss_index) = 0
    /\ ~faiss_index.created
    /\ simple_documents = <<>>
    /\ simple_embeddings.rows = <<>>
    /\ ~simple_embeddings.set
    /\ simple_ntotal = 0

\* C7: clear() never raises and leaves documents and vectors empty, from
\* every state; on a cleared (or never used) retriever it changes nothing,
\* so a second clear() yields the state of the first; an add_documents on
\* the cleared retriever, with a working embedder, succeeds and stores
\* exactly the texts it was given.
ClearIsIdempotentAndTotal ==
    [][/\ Clear => (RetrieversEmpty' /\ last'.faiss.raised = "" /\ last'.simple.raised = "")
       /\ (RetrieversEmpty /\ Clear) =>
              UNCHANGED <<faiss_index, faiss_documents, simple_ntotal,
                          simple_embeddings, simple_documents>>
       /\ (RetrieversEmpty /\ AddStep /\ last'.embed_ok) =>
              /\ last'.faiss.raised = "" /\ last'.simple.raised = ""
              /\ TextsOf(faiss_documents') = last'.texts
              /\ TextsOf(simple_documents') = last'.texts
              /\ FAISSAligned' /\ SimpleAligned']_vars

ClearWitness ==
    /\ last.op = "clear"
    /\ RetrieversEmpty

\* C8: whenever the retriever the tests construct (Retriever, the
\* FAISSRetriever) holds no documents, retriever.index is an object whose
\* ntotal reads 0.
EmptyRetrieverHasIndex ==
    faiss_documents = <<>> => (faiss_index.created /\ NTotal(faiss_index) = 0)

\* C9: add_documents([]) changes nothing in either variant (documents,
\* vectors, whether the index exists), does not call the embedder and does
\* not raise.
AddEmptyIsNoOp ==
    [][AddEmptyStep =>
          /\ UNCHANGED <<faiss_index, faiss_documents, simple_ntotal,
                         simple_embeddings, simple_documents>>
          /\ last'.faiss = [raised |-> "", embed_called |-> FALSE, result |-> <<>>]
          /\ last'.simple = [raised |-> "", embed_called |-> FALSE, result |-> <<>>]]_vars

AddEmptyWitness ==
    /\ last.op = "add"
    /\ last.texts = <<>>
    /\ ~last.embed_ok
    /\ ~faiss_index.created
    /\ ~simple_embeddings.set

\* C10: an add_documents call that raises leaves documents and vectors as
\* they were, so they stay aligned.
FailedAddChangesNothing ==
    [][AddStep =>
          /\ last'.faiss.raised # "" =>
                (UNCHANGED <<faiss_index, faiss_documents>> /\ FAISSAligned')
          /\ last'.simple.raised # "" =>
                (UNCHANGED <<simple_ntotal, simple_embeddings, simple_documents>>
                 /\ SimpleAligned')]_vars

FailedAddWitness ==
    /\ last.op = "add"
    /\ last.embed_ok
    /\ last.faiss.raised = "AssertionError"
    /\ last.simple.raised = "ValueError"
    /\ faiss_documents # <<>>
    /\ simple_documents # <<>>

\* The documents of the retriever the turn was given.
TurnDocuments == IF turn.retriever = "faiss" THEN faiss_documents ELSE simple_documents

\* The system messages of a request.
SystemMessages(request) ==
    LET IsSystem(m) == m.role = "system"
    IN SelectSeq(request, IsSystem)

\* C11: in stream_message_with_rag, when the retriever is None, holds no
\* documents, returns an empty list or raises during retrieval, the request
\* sent to the model carries the caller's own system prompt (as a plain
\* stream_message would send it) and the turn completes: the user message
\* is recorded, a response is yielded, the assistant message is recorded,
\* and no exception reaches the caller.
RetrievalFailureFallsBack ==
    (/\ turn.op = "stream_message_with_rag"
     /\ \/ turn.retriever = "None"
        \/ TurnDocuments = <<>>
        \/ turn.retrieval.result = <<>>
        \/ turn.retrieval.raised # "")
    => /\ turn.raised = ""
       /\ turn.prompt = turn.system_prompt
       /\ SystemMessages(turn.request) =
             (IF Strip(turn.system_prompt) = <<>> THEN <<>>
              ELSE <<Message("system", Strip(turn.system_prompt))>>)
       /\ turn.request[Len(turn.request)] = Message("user", TextString(turn.content))
       /\ turn.yielded # <<>>
       /\ Len(messages) = Len(turn.history) + 2
       /\ SubSeq(messages, 1, Len(turn.history)) = turn.history
       /\ messages[Len(messages) - 1] = Message("user", TextString(turn.content))
       /\ messages[Len(messages)].role = "assistant"

RetrievalFailureWitness ==
    /\ turn.op = "stream_message_with_rag"
    /\ turn.retrieved
    /\ turn.retrieval.raised # ""
    /\ TurnDocuments # <<>>
    /\ Strip(turn.system_prompt) # <<>>
    /\ Len(messages) = 2

\* The pieces of a string that are document texts, in their order.
DocPieces(string) ==
    LET IsText(p) == p \in {ToString(t) : t \in Texts}
    IN SelectSeq(string, IsText)

\* C12: when retrieve returns a non-empty list, the system prompt sent to
\* the model is the caller's system prompt (the default sentence when none
\* was given), then the instruction sentence, then the texts of the returned
\* documents in retrieval order joined by the separator, stripped of
\* surrounding whitespace as every system prompt is; each returned document
\* contributes its text once and no other document text appears.
ContextInjectedInOrder ==
    (/\ turn.op = "stream_message_with_rag"
     /\ turn.retrieved
     /\ turn.retrieval.raised = ""
     /\ turn.retrieval.result # <<>>)
    => LET result == turn.retrieval.result
           texts == [i \in 1..Len(result) |-> ToString(result[i].doc.text)]
           head == IF turn.system_prompt # <<>>
                   THEN turn.system_prompt \o <<"\n", "\n">>
                   ELSE <<"You are a helpful assistant.", " ">>
           body == <<"Use the following context to answer the user's question:",
                     "\n", "\n">>
           \* text, "\n\n---\n", text, ... : five pieces per text but the last
           context == [i \in 1..(5 * Len(texts) - 4) |->
                          IF i % 5 = 1 THEN texts[(i + 4) \div 5]
                          ELSE IF i % 5 = 4 THEN "---" ELSE "\n"]
           sent == turn.request[1]
       IN /\ turn.raised = ""
          /\ sent.role = "system"
          /\ DocPieces(sent.content) = texts
          /\ sent.content = Strip(head \o body \o context)

ContextInjectedWitness ==
    /\ turn.op = "stream_message_with_rag"
    /\ Len(turn.retrieval.result) >= 2
    /\ turn.retrieval.result[1].doc.text # turn.retrieval.result[2].doc.text
    /\ turn.system_prompt = <<>>
    /\ Len(messages) = 2

\* C13: each chat session owns its own vector index: every document that
\* ChatStateManager.retriever shows was added while the session that is
\* current now was current.
SessionsOwnTheirIndex ==
    \A i \in 1..Len(VisibleDocSessions) : VisibleDocSessions[i] = current_session_id

\* Offset i of the text lies in one of the windows cut so far.
InSomeSpan(i) == \E j \in 1..Len(spans) : spans[j].lo <= i /\ i < spans[j].hi

\* C14: the windows of the chunker, in order, cover the text from offset 0
\* to its end: the first starts at offset 0, each later one starts at or
\* before the end of the one before, and no non-whitespace character lies
\* outside every window. A chunker that moves on with every window has
\* covered a text of n characters after n windows.
ChunkSpansCoverText ==
    (pc = "loop" /\ spans # <<>>) =>
        /\ spans[1].lo = 0
        /\ \A j \in 2..Len(spans) : spans[j].lo <= spans[j - 1].hi
        /\ Len(spans) >= Len(text) =>
              \A i \in 0..(Len(text) - 1) :
                  text[i + 1] \notin Whitespace => InSomeSpan(i)

\* C15: when the window [start, start + chunk_size) ends strictly inside the
\* text and the character at the cut is not a boundary character, the cut
\* is made at the last space inside the window when there is one, and at
\* start + chunk_size when there is none.
CutAtLastSpace ==
    [][ChunkLoopBody =>
          LET w == start + chunk_size
              spaces == {i \in start..(w - 1) : text[i + 1] = " "}
          IN (w < Len(text) /\ text[w + 1] \notin {" ", "\n", ".", "!", "?"}) =>
                IF spaces # {}
                THEN /\ end' \in spaces
                     /\ \A i \in spaces : i <= end'
                ELSE end' = w]_vars

CutAtLastSpaceWitness ==
    /\ pc = "loop"
    /\ end # Unbound
    /\ start < end
    /\ end < start + chunk_size
    /\ start + chunk_size < Len(text)
    /\ text[start + chunk_size + 1] = "a"
    /\ text[end + 1] = " "
    /\ text[end] = "a"

\* C16: from one window to the next the start offset becomes the previous
\* end minus chunk_overlap, is greater than the previous start, and lies in
\* 0..len(text).
StartAdvancesByOverlap ==
    \A j \in 2..Len(spans) :
        /\ spans[j].lo = spans[j - 1].hi - chunk_overlap
        /\ spans[j].lo > spans[j - 1].lo
        /\ spans[j].lo \in 0..Len(text)

\* C17: every emitted chunk is non-empty, has no whitespace at either end
\* and is at most chunk_size characters long; a window whose stripped
\* content is empty emits nothing, so there is one chunk per window with
\* content.
ChunksAreStrippedAndBounded ==
    /\ \A i \in 1..Len(chunks) :
          /\ chunks[i] # <<>>
          /\ chunks[i][1] \notin Whitespace
          /\ chunks[i][Len(chunks[i])] \notin Whitespace
          /\ Len(chunks[i]) <= chunk_size
    /\ Len(chunks) =
          Cardinality({j \in 1..Len(spans) :
                          \E i \in spans[j].lo..(spans[j].hi - 1) :
                              text[i + 1] \notin Whitespace})

ChunksStrippedWitness ==
    /\ pc = "loop"
    /\ Len(chunks) >= 1
    /\ Len(chunks[1]) < end - start
    /\ text[end] \in Whitespace

\* C18: DocumentProcessor(chunk_size, chunk_overlap) raises ValueError in
\* the constructor, with nothing processed, when chunk_overlap >= chunk_size;
\* otherwise it returns and both values are stored as given.
ConstructorRejectsOverlap ==
    [][\A size \in 0..MaxChunkSize, overlap \in 0..MaxChunkSize :
          DocumentProcessorInit(size, overlap) =>
              IF overlap >= size
              THEN /\ pc' = "raised"
                   /\ error' = "ValueError"
                   /\ text' = <<>> /\ chunks' = <<>> /\ spans' = <<>>
              ELSE /\ pc' = "ready"
                   /\ error' = ""
                   /\ chunk_size' = size
                   /\ chunk_overlap' = overlap]_vars

ConstructorRejectsWitness ==
    /\ pc = "raised"
    /\ error = "ValueError"
    /\ spans = <<>>
    /\ text = <<>>

\* C19: nothing is loaded before the first embedding call or property
\* access that needs the model: constructing an Embedder or fetching the
\* singleton loads nothing. Once a load has succeeded, every later call
\* attempts no load and leaves model, model_name and dimension as they are.
ModelLoadedLazilyAndOnce ==
    /\ model = NoModel
    /\ [][(EmbedderNew \/ GetEmbedder) => UNCHANGED <<model, model_name, dimension>>]_vars
    /\ [][model # NoModel =>
             /\ UNCHANGED <<model, model_name, dimension>>
             /\ embedder_call'.attempts = <<>>
             /\ embedder_call'.raised = ""]_vars

ModelReusedWitness ==
    /\ model = FALLBACK_MODEL
    /\ embedder_instance
    /\ embedder_call.op = "embed_documents"
    /\ embedder_call.attempts = <<>>
    /\ Len(embedder_call.value.rows) = 2

\* C20: a resolution attempts the primary model first and the fallback
\* model only after the primary attempt of the same call failed; when both
\* fail the call raises, returns no vector, and the cache stays unresolved
\* (model None, model_name "", dimension 0).
FallbackOnlyAfterPrimary ==
    LET a == embedder_call.attempts
    IN /\ Len(a) <= 2
       /\ Len(a) >= 1 => a[1].name = PRIMARY_MODEL
       /\ Len(a) = 1 => a[1].ok
       /\ Len(a) = 2 => (a[2].name = FALLBACK_MODEL /\ ~a[1].ok)
       /\ (embedder_call.raised # "") = (Len(a) = 2 /\ ~a[2].ok)
       /\ embedder_call.raised # "" =>
             /\ model = NoModel
             /\ model_name = ""
             /\ dimension = 0
             /\ embedder_call.value = NoValue
       /\ (Len(a) >= 1 /\ embedder_call.raised = "") =>
             /\ model = a[Len(a)].name
             /\ model_name = a[Len(a)].name
             /\ dimension = (IF Len(a) = 1 THEN PrimaryDimension ELSE FallbackDimension)

BothLoadsFailWitness ==
    /\ embedder_call.op = "embed_query"
    /\ embedder_call.raised # ""
    /\ Len(embedder_call.attempts) = 2

QueryModeFollowsModel ==
    LET v == embedder_call.value
    IN /\ (embedder_call.op = "embed_query" /\ embedder_call.raised = "") =>
             /\ v.encoded
             /\ model = PRIMARY_MODEL => v.prompt_name = "query"
             /\ model = FALLBACK_MODEL =>
                   /\ v.prompt_name = ""
                   /\ v = Encoded(FALLBACK_MODEL,
                                  embed_documents(embedder_call.texts, FallbackDimension), "")
       /\ (embedder_call.op = "embed_documents" /\ embedder_call.raised = ""
              /\ embedder_call.texts # <<>>) =>
             /\ v.encoded
             /\ v.prompt_name = ""

\* A query was encoded by the primary model, with the query prompt.
QueryPromptWitness ==
    /\ embedder_call.op = "embed_query"
    /\ embedder_call.raised = ""
    /\ model = PRIMARY_MODEL
    /\ embedder_call.value.encoded
    /\ embedder_call.value.prompt_name = "query"

\* The extensions process() extracts text from.
SupportedExtensions == {<<".", "pdf">>, <<".", "txt">>, <<".", "md">>, <<".", "text">>}

\* C24: process(file_bytes, filename) on a file name whose lower-cased
\* extension is none of .pdf, .txt, .md, .text raises
\* DocumentProcessingError with a message that names the extension, whatever
\* the bytes are: the bytes are neither decoded nor written anywhere, no
\* temporary file appears, and the chunker is not entered, so no chunk exists.
UnsupportedExtensionFails ==
    (process_call.op = "process"
        /\ Lower(Suffix(process_call.filename)) \notin SupportedExtensions) =>
        /\ pc = "raised"
        /\ error = "DocumentProcessingError"
        /\ process_call.message =
              <<"Unsupported file type: ">> \o Lower(Suffix(process_call.filename))
        /\ ~process_call.inspected
        /\ process_call.text = <<>>
        /\ tmp_files = 0
        /\ chunks = <<>>
        /\ spans = <<>>
        /\ iterations = 0

\* process() refused a file whose last extension is .gz although an earlier
\* one is .pdf.
UnsupportedExtensionWitness ==
    /\ process_call.op = "process"
    /\ process_call.filename = <<"report", ".", "pdf", ".", "gz">>
    /\ process_call.message = <<"Unsupported file type: ", ".", "gz">>
    /\ error = "DocumentProcessingError"

\* C25: when the text extracted from a supported file, a text file or a PDF,
\* is empty or holds only whitespace, process() raises
\* DocumentProcessingError and _chunk_text is never entered (no text handed
\* over, no window cut, no chunk); hence a process() call that has returned
\* has returned at least one chunk.
BlankTextFails ==
    /\ (process_call.op = "process" /\ process_call.extractor \in {"pdf", "text"}
           /\ process_call.fail_at = "none" /\ Strip(process_call.text) = <<>>) =>
          /\ pc = "raised"
          /\ error = "DocumentProcessingError"
          /\ text = <<>>
          /\ spans = <<>>
          /\ chunks = <<>>
          /\ iterations = 0
    /\ (process_call.op = "process" /\ pc = "returned") => Len(chunks) >= 1

\* A PDF of two pages without text: the extracted text is one line break.
BlankPdfWitness ==
    /\ process_call.op = "process"
    /\ process_call.extractor = "pdf"
    /\ process_call.fail_at = "none"
    /\ process_call.text = <<"\n">>
    /\ pc = "raised"
    /\ error = "DocumentProcessingError"

\* C26: after _extract_pdf has returned or raised, whichever statement
\* failed (the write to the temporary file, the opening of the PDF, the
\* extraction of a page), no temporary file of the call is left on disk, and
\* a failure reaches the caller as DocumentProcessingError only.
NoTempFileRemains ==
    (process_call.op = "process" /\ process_call.extractor = "pdf") =>
        /\ tmp_files = 0
        /\ process_call.fail_at # "none" =>
              /\ pc = "raised"
              /\ error = "DocumentProcessingError"

\* C27: a completed turn, by send_message or by a stream_message consumed to
\* its end, has appended exactly two messages to the conversation it found:
\* the user message, then one assistant message, which is the error text
\* when the API call failed. So the conversation always alternates user,
\* assistant and holds twice as many messages as turns were completed.
TurnsAppendTwoMessages ==
    /\ Len(messages) = 2 * turns_done
    /\ \A i \in 1..Len(messages) :
          messages[i].role = (IF i % 2 = 1 THEN "user" ELSE "assistant")
    /\ turn.op \in {"send_message", "stream_message"} =>
          LET n == Len(turn.history)
          IN /\ Len(messages) = n + 2
             /\ SubSeq(messages, 1, n) = turn.history
             /\ messages[n + 1] = Message("user", TextString(turn.content))
             /\ messages[n + 2].role = "assistant"
             /\ turn.api \in {"raises", "raises_midway"} =>
                   messages[n + 2].content = <<ERROR_MESSAGE>>
             /\ turn.api = "complete" => messages[n + 2].content = <<"response">>

\* The second turn of a conversation was streamed and the API failed after
\* the first chunk; the first turn's API call had failed too.
FailedTurnsWitness ==
    /\ turns_done = 2
    /\ turn.op = "stream_message"
    /\ turn.api = "raises_midway"
    /\ Len(messages) = 4
    /\ messages[2].content = <<ERROR_MESSAGE>>
    /\ messages[4].content = <<ERROR_MESSAGE>>

\* C28: whatever create_session, switch_session, delete_session,
\* rename_session, import_session and duplicate_session calls were made, the
\* session list is not empty, its ids are pairwise distinct and
\* current_session_id is one of them. A call that raises ValueError changes
\* nothing, and switch_session and rename_session raise it for an unknown
\* id. Deleting the current session makes another session current: one that
\* existed already when one is left, a newly created one otherwise.
SessionListWellFormed ==
    /\ [](/\ sessions # <<>>
          /\ Len(session_names) = Len(sessions)
          /\ \A i, j \in 1..Len(sessions) : sessions[i] = sessions[j] => i = j
          /\ current_session_id \in SessionIds)
    /\ [][session_raised' = "ValueError" =>
             UNCHANGED <<sessions, session_names, current_session_id, session_counter,
                         uuids>>]_vars
    /\ [][\A session_id \in 1..MaxSessions :
             (/\ session_id \notin SessionIds
              /\ \/ SwitchToSession(session_id)
                 \/ \E new_name \in NameArgs : RenameSession(session_id, new_name))
                => session_raised' = "ValueError"]_vars
    /\ [][\A session_id \in 1..MaxSessions :
             (session_id = current_session_id /\ DeleteSession(session_id)) =>
                 /\ current_session_id' # session_id
                 /\ current_session_id' \in {sessions'[i] : i \in 1..Len(sessions')}
                 /\ session_id \notin {sessions'[i] : i \in 1..Len(sessions')}
                 /\ IF Len(sessions) > 1
                    THEN current_session_id' \in SessionIds
                    ELSE current_session_id' \notin SessionIds]_vars

\* An imported session became current when the initial one was deleted, and
\* was deleted in turn: the only session is a newly created one.
LastSessionReplacedWitness ==
    /\ sessions = <<3>>
    /\ current_session_id = 3
    /\ session_counter = 2
    /\ session_names = <<DefaultName(2)>>

\* C29: when two threads make their first embedding call while the cache is
\* unresolved, under every interleaving of the statements of get_model at
\* most one loaded model is assigned to the cache, and the cached model,
\* model_name and dimension never belong to different models; once both
\* calls have returned the cache is not written again.
OneLoadUnderConcurrency ==
    /\ [](loads_done <= 1)
    /\ [](/\ model = PRIMARY_MODEL =>
                (model_name # FALLBACK_MODEL /\ dimension # FallbackDimension)
          /\ model = FALLBACK_MODEL =>
                (model_name # PRIMARY_MODEL /\ dimension # PrimaryDimension)
          /\ model_name = PRIMARY_MODEL => dimension # FallbackDimension
          /\ model_name = FALLBACK_MODEL => dimension # PrimaryDimension)
    /\ [][(\A t \in Threads : thread_pc[t] = "returned") =>
             UNCHANGED <<model, model_name, dimension>>]_vars

\* The dimension the stored vectors of each variant were added with.
FAISSStoredDimension == faiss_index.d

SimpleStoredDimension == Len(simple_embeddings.rows[1])

\* C30: between two clear() calls the dimension of a retriever's index is the
\* one of its first non-empty add_documents: every stored vector has it, no
\* call but clear() changes it, and an add_documents whose embeddings have
\* another dimension raises and leaves documents and stored vectors as they
\* were, in both variants.
IndexDimensionIsFixed ==
    /\ [](/\ faiss_index.created =>
                \A i \in 1..Len(faiss_index.xb) :
                    Len(faiss_index.xb[i]) = FAISSStoredDimension
          /\ simple_embeddings.set =>
                \A i \in 1..Len(simple_embeddings.rows) :
                    Len(simple_embeddings.rows[i]) = SimpleStoredDimension)
    /\ [][~Clear =>
            /\ faiss_index.created =>
                  (faiss_index'.created /\ FAISSStoredDimension' = FAISSStoredDimension)
            /\ simple_embeddings.set =>
                  (simple_embeddings'.set
                   /\ SimpleStoredDimension' = SimpleStoredDimension)]_vars
    /\ [][(AddStep /\ last'.texts # <<>> /\ last'.embed_ok) =>
            /\ (faiss_index.created /\ FAISSStoredDimension # last'.dim) =>
                  (/\ last'.faiss.raised # ""
                   /\ UNCHANGED <<faiss_index, faiss_documents>>)
            /\ (simple_embeddings.set /\ SimpleStoredDimension # last'.dim) =>
                  (/\ last'.simple.raised # ""
                   /\ UNCHANGED <<simple_ntotal, simple_embeddings,
                                  simple_documents>>)]_vars

IndexDimensionWitness ==
    /\ last.op = "add"
    /\ last.texts # <<>>
    /\ last.embed_ok
    /\ faiss_index.created
    /\ faiss_index.xb # <<>>
    /\ FAISSStoredDimension # last.dim
    /\ simple_embeddings.set
    /\ SimpleStoredDimension # last.dim
    /\ last.faiss.raised # ""
    /\ last.simple.raised # ""

====
